---- MODULE Spec2Model ----
(***************************************************************************)
(* Replicated, sharded key-value store of a3: the metadata server          *)
(* (coordinator M, first program of src/a3/mserver.c) and the key-value    *)
(* servers (second program of src/a3/mserver.c), with the failure          *)
(* detector, the recovery protocol and the replicated PUT path.            *)
(***************************************************************************)
EXTENDS Naturals, Integers, Sequences, FiniteSets, TLC

(* ------------------------------ bounds --------------------------------- *)
MaxKey == 1
MaxAge == 4
MaxTimeoutArg == 4
MaxCrashes == 2
MaxSpawnFail == 1
MaxDataCrashes == 1
MaxOps == 2
MaxOom == 1
MaxStreamOps == 1

(* ------------------------- program constants --------------------------- *)
num_servers == 3
default_server_timeout == 3
heartbeat_check_diff == 2

Srv == 0 .. (num_servers - 1)
Keys == 0 .. MaxKey
NoVal == 0

(* ----------------------------- placement ------------------------------- *)
hash_key(key) == (31 * key + 7) % 65536
key_server_id(key, n) == hash_key(key) % n
secondary_server_id(sid, n) == (sid + 1) % n
primary_server_id(sid, n) == (sid + n - 1) % n

(* parse_args of the metadata server: -t <timeout>, 0 when absent *)
parse_args(t) == IF t # 0 THEN t ELSE default_server_timeout

(* ----------------------------- state ----------------------------------- *)
VARIABLES
  \* metadata server
  server_timeout,              \* configured detector timeout
  server_status,               \* node->server_status
  updated_primary_accepted,
  updated_secondary_accepted,
  ignore_put,
  hb_seen,                     \* node->last_heartbeat != 0
  hb_age,                      \* difftime(time(NULL), node->last_heartbeat), capped
  socket_fd_in,                \* node->socket_fd_in != -1
  socket_fd_out,               \* node->socket_fd_out != -1
  inbox,                       \* unread messages of server i on socket_fd_in
  m_pc, m_i, m_sw,             \* position of run_mserver_loop
  recovery_no,                 \* number of the current recovery of each shard
  ack_primary_no, ack_secondary_no, \* recovery the accepted ack was sent for
  update_failed_no,            \* recovery the last UPDATE_*_FAILED was sent for
  locate_resp,                 \* locate response on its way to the client
  \* key-value servers
  alive,
  state,
  send_primary,
  primary_hash, secondary_hash,
  primary_fd, secondary_fd,
  tasks,                       \* running send_table_task threads
  hnd,                         \* process_client_message activations
  client_fd_table,
  locked,                      \* keys held by hash_lock
  main_pc,                     \* run_server_loop: "loop" or "flush"
  \* observation and environment budgets
  reply, acked, budget

mvars == <<server_timeout, server_status, updated_primary_accepted,
           updated_secondary_accepted, ignore_put, hb_seen, hb_age,
           socket_fd_in, socket_fd_out, m_pc, m_i, m_sw, recovery_no,
           ack_primary_no, ack_secondary_no, update_failed_no>>
lvars == <<locate_resp>>
dvars == <<primary_hash, secondary_hash, hnd, client_fd_table, locked,
           reply, acked>>
svars == <<alive, state, send_primary, primary_fd, secondary_fd, tasks,
           main_pc>>
vars == <<mvars, lvars, dvars, svars, inbox, budget>>

NoConn == [to |-> -1, ok |-> FALSE, req |-> <<>>, resp |-> <<>>]
NewConn(t) == [to |-> t, ok |-> TRUE, req |-> <<>>, resp |-> <<>>]
IdleH == [pc |-> "idle", op |-> "NOOP", key |-> 0, val |-> 0, tbl |-> "P",
          fd |-> "none"]
NoReply == [srv |-> -1, op |-> "NOOP", key |-> 0, val |-> 0,
            status |-> "NONE", tbl |-> "P", st |-> "ONLINE", why |-> "none"]
NoLocate == [key |-> -1, server |-> -1, online |-> FALSE]
EmptyTable == [k \in Keys |-> NoVal]
Threads == {"cl", "main"}

Min(S) == CHOOSE x \in S : \A y \in S : x <= y
Inc(n) == IF n < MaxAge THEN n + 1 ELSE MaxAge

(* A freshly started key-value server process (init_server) *)
FreshServer(i) ==
  /\ alive' = [alive EXCEPT ![i] = TRUE]
  /\ state' = [state EXCEPT ![i] = "ONLINE"]
  /\ send_primary' = [send_primary EXCEPT ![i] = FALSE]
  /\ primary_hash' = [primary_hash EXCEPT ![i] = EmptyTable]
  /\ secondary_hash' = [secondary_hash EXCEPT ![i] = EmptyTable]
  /\ primary_fd' = [primary_fd EXCEPT ![i] = NoConn]
  /\ secondary_fd' = [secondary_fd EXCEPT ![i] = NoConn]
  /\ tasks' = [tasks EXCEPT ![i] = {}]
  /\ hnd' = [hnd EXCEPT ![i] = [t \in Threads |-> IdleH]]
  /\ client_fd_table' = [client_fd_table EXCEPT ![i] = {}]
  /\ locked' = [locked EXCEPT ![i] = {}]
  /\ main_pc' = [main_pc EXCEPT ![i] = "loop"]

(* The connections of the other servers to a process that stopped: what   *)
(* was sent to it and not read is lost, what it answered can still be read *)
Broken(c, i) == IF c.to = i THEN [c EXCEPT !.ok = FALSE, !.req = <<>>] ELSE c

(* A key-value server process stops (crash, or kill_safe by spawn_server) *)
StopServer(i) ==
  /\ alive' = [alive EXCEPT ![i] = FALSE]
  /\ state' = [state EXCEPT ![i] = "ONLINE"]
  /\ send_primary' = [send_primary EXCEPT ![i] = FALSE]
  /\ primary_hash' = [primary_hash EXCEPT ![i] = EmptyTable]
  /\ secondary_hash' = [secondary_hash EXCEPT ![i] = EmptyTable]
  /\ primary_fd' = [s \in Srv |-> IF s = i THEN NoConn ELSE Broken(primary_fd[s], i)]
  /\ secondary_fd' = [s \in Srv |-> IF s = i THEN NoConn ELSE Broken(secondary_fd[s], i)]
  /\ tasks' = [tasks EXCEPT ![i] = {}]
  /\ hnd' = [hnd EXCEPT ![i] = [t \in Threads |-> IdleH]]
  /\ client_fd_table' = [client_fd_table EXCEPT ![i] = {}]
  /\ locked' = [locked EXCEPT ![i] = {}]
  /\ main_pc' = [main_pc EXCEPT ![i] = "loop"]

(* ------------------------------ Init ----------------------------------- *)
(* State after init_mserver / init_servers: every server spawned and told  *)
(* its secondary (send_set_secondary), no heartbeat received yet.          *)
InitWith(t, b) ==
  /\ server_timeout = parse_args(t)
  /\ server_status = [i \in Srv |-> "ONLINE"]
  /\ updated_primary_accepted = [i \in Srv |-> FALSE]
  /\ updated_secondary_accepted = [i \in Srv |-> FALSE]
  /\ ignore_put = [i \in Srv |-> FALSE]
  /\ hb_seen = [i \in Srv |-> FALSE]
  /\ hb_age = [i \in Srv |-> 0]
  /\ socket_fd_in = [i \in Srv |-> TRUE]
  /\ socket_fd_out = [i \in Srv |-> TRUE]
  /\ inbox = [i \in Srv |-> <<>>]
  /\ m_pc = "select"
  /\ m_i = 0
  /\ m_sw = <<0, 0>>
  /\ recovery_no = [i \in Srv |-> 0]
  /\ ack_primary_no = [i \in Srv |-> 0]
  /\ ack_secondary_no = [i \in Srv |-> 0]
  /\ update_failed_no = [i \in Srv |-> 0]
  /\ locate_resp = NoLocate
  /\ alive = [i \in Srv |-> TRUE]
  /\ state = [i \in Srv |-> "ONLINE"]
  /\ send_primary = [i \in Srv |-> FALSE]
  /\ primary_hash = [i \in Srv |-> EmptyTable]
  /\ secondary_hash = [i \in Srv |-> EmptyTable]
  /\ primary_fd = [i \in Srv |-> NoConn]
  /\ secondary_fd = [i \in Srv |-> NewConn(secondary_server_id(i, num_servers))]
  /\ tasks = [i \in Srv |-> {}]
  /\ hnd = [i \in Srv |-> [th \in Threads |-> IdleH]]
  /\ client_fd_table = [i \in Srv |-> {}]
  /\ locked = [i \in Srv |-> {}]
  /\ main_pc = [i \in Srv |-> "loop"]
  /\ reply = NoReply
  /\ acked = [k \in Keys |-> NoVal]
  /\ budget = b


(* ======================= metadata server (M) =========================== *)

(* The failure test of the detection pass, run_mserver_loop *)
heartbeat_failed(seen, age) == seen /\ age > heartbeat_check_diff

TimedOut(age, from) == {i \in Srv : i >= from /\ heartbeat_failed(hb_seen[i], age[i])}

Ready == \E i \in Srv : socket_fd_in[i] /\ inbox[i] # <<>>

(* One second passes while M waits in select(): every running server's     *)
(* heartbeat_task sends HEARTBEAT, then select returns and the detection   *)
(* pass runs; with no server timed out the message pass is next.           *)
Tick ==
  /\ m_pc = "select"
  /\ ~Ready
  /\ locate_resp = NoLocate
  /\ hb_age' = [i \in Srv |-> Inc(hb_age[i])]
  /\ m_pc' = IF TimedOut(hb_age', 0) = {} THEN "msgs" ELSE "detect"
  /\ inbox' = [i \in Srv |->
       IF alive[i] /\ socket_fd_in[i]
       THEN Append(inbox[i], [type |-> "HEARTBEAT", sid |-> i, no |-> 0])
       ELSE inbox[i]]
  /\ m_i' = 0
  /\ UNCHANGED <<server_timeout, server_status, updated_primary_accepted,
                 updated_secondary_accepted, ignore_put, hb_seen, socket_fd_in,
                 socket_fd_out, m_sw, recovery_no, ack_primary_no,
                 ack_secondary_no, update_failed_no, lvars, dvars, svars, budget>>

(* select() returns because a server message is ready *)
MSelect ==
  /\ m_pc = "select"
  /\ Ready
  /\ locate_resp = NoLocate
  /\ m_pc' = IF TimedOut(hb_age, 0) = {} THEN "msgs" ELSE "detect"
  /\ m_i' = 0
  /\ UNCHANGED <<server_timeout, server_status, updated_primary_accepted,
                 updated_secondary_accepted, ignore_put, hb_seen, hb_age,
                 socket_fd_in, socket_fd_out, m_sw, recovery_no, ack_primary_no,
                 ack_secondary_no, update_failed_no, lvars, dvars, svars, inbox, budget>>

(* Detection pass after a recovery: no further server has timed out *)
MDetectNone ==
  /\ m_pc = "detect"
  /\ TimedOut(hb_age, m_i) = {}
  /\ m_pc' = "msgs"
  /\ m_i' = 0
  /\ UNCHANGED <<server_timeout, server_status, updated_primary_accepted,
                 updated_secondary_accepted, ignore_put, hb_seen, hb_age,
                 socket_fd_in, socket_fd_out, m_sw, recovery_no, ack_primary_no,
                 ack_secondary_no, update_failed_no, lvars, dvars, svars, inbox, budget>>

(* Detection pass: the next timed out server is marked failed; spawn_server *)
(* closes its sockets and kills its process, then waits for the new one.    *)
MDetect ==
  /\ m_pc = "detect"
  /\ TimedOut(hb_age, m_i) # {}
  /\ LET i == Min(TimedOut(hb_age, m_i)) IN
       /\ server_status' = [server_status EXCEPT ![i] = "FAILED"]
       /\ socket_fd_in' = [socket_fd_in EXCEPT ![i] = FALSE]
       /\ socket_fd_out' = [socket_fd_out EXCEPT ![i] = FALSE]
       /\ inbox' = [inbox EXCEPT ![i] = <<>>]
       /\ StopServer(i)
       /\ m_i' = i
  /\ m_pc' = "spawning"
  /\ UNCHANGED <<server_timeout, updated_primary_accepted,
                 updated_secondary_accepted, ignore_put, hb_seen, hb_age, m_sw,
                 recovery_no, ack_primary_no, ack_secondary_no, update_failed_no, lvars, reply,
                 acked, budget>>

(* Variant: the recovery goes on after a failed spawn_server *)
MSpawnFail_goes_on ==
  /\ m_pc = "spawning"
  /\ budget.spawn_fail > 0
  /\ budget' = [budget EXCEPT !.spawn_fail = @ - 1]
  /\ m_pc' = "upd_primary"
  /\ m_i' = m_i
  /\ UNCHANGED <<server_timeout, server_status, updated_primary_accepted,
                 updated_secondary_accepted, ignore_put, hb_seen, hb_age,
                 socket_fd_in, socket_fd_out, m_sw, recovery_no, ack_primary_no,
                 ack_secondary_no, update_failed_no, lvars, dvars, svars, inbox>>

(* spawn_server fails (fork, accept or connect): the server stays FAILED *)
MSpawnFail ==
  /\ m_pc = "spawning"
  /\ budget.spawn_fail > 0
  /\ budget' = [budget EXCEPT !.spawn_fail = @ - 1]
  /\ m_pc' = "detect"
  /\ m_i' = m_i + 1
  /\ UNCHANGED <<server_timeout, server_status, updated_primary_accepted,
                 updated_secondary_accepted, ignore_put, hb_seen, hb_age,
                 socket_fd_in, socket_fd_out, m_sw, recovery_no, ack_primary_no,
                 ack_secondary_no, update_failed_no, lvars, dvars, svars, inbox>>

(* spawn_server succeeds: the replacement runs and M resets the node *)
MSpawnOk ==
  /\ m_pc = "spawning"
  /\ socket_fd_in' = [socket_fd_in EXCEPT ![m_i] = TRUE]
  /\ socket_fd_out' = [socket_fd_out EXCEPT ![m_i] = TRUE]
  /\ hb_seen' = [hb_seen EXCEPT ![m_i] = TRUE]
  /\ hb_age' = [hb_age EXCEPT ![m_i] = 0]
  /\ server_status' = [server_status EXCEPT ![m_i] = "RECON"]
  /\ updated_primary_accepted' = [updated_primary_accepted EXCEPT ![m_i] = FALSE]
  /\ updated_secondary_accepted' = [updated_secondary_accepted EXCEPT ![m_i] = FALSE]
  /\ ignore_put' = [ignore_put EXCEPT ![m_i] = FALSE]
  /\ recovery_no' = [recovery_no EXCEPT ![m_i] = @ + 1]
  /\ FreshServer(m_i)
  /\ m_pc' = "upd_primary"
  /\ UNCHANGED <<server_timeout, m_i, m_sw, ack_primary_no, ack_secondary_no, update_failed_no,
                 lvars, reply, acked, inbox, budget>>

(* send_table_task thread as created by send_to_replacement *)
(* cmd: the thread handle the task runs on, send_replacement_primary_thread *)
(* for UPDATE_PRIMARY and send_replacement_secondary_thread otherwise       *)
NewTask(no, sp) ==
  [pc |-> "start", tbl |-> "P", cur |-> 0, no |-> no,
   cmd |-> IF sp THEN "UPDATE_SECONDARY" ELSE "UPDATE_PRIMARY"]

(* A handler waiting for a forward reply on a descriptor that is closed *)
CloseFd(h, name) == IF h.pc = "fwd" /\ h.fd = name THEN [h EXCEPT !.fd = "closed"] ELSE h

(* process_mserver_message, UPDATE_PRIMARY / UPDATE_SECONDARY, with         *)
(* send_to_replacement: server s is told to stream to the replacement t     *)
send_to_replacement(s, t, sp) ==
  /\ send_primary' = [send_primary EXCEPT ![s] = sp]
  /\ IF alive[t]
     THEN /\ secondary_fd' = IF sp THEN [secondary_fd EXCEPT ![s] = NewConn(t)]
                             ELSE secondary_fd
          /\ primary_fd' = IF sp THEN primary_fd
                           ELSE [primary_fd EXCEPT ![s] = NewConn(t)]
          /\ state' = [state EXCEPT ![s] =
                         IF sp THEN "UPDATING_SECONDARY" ELSE "UPDATING_PRIMARY"]
          /\ tasks' = [tasks EXCEPT ![s] = @ \cup {NewTask(recovery_no[t], sp)}]
          /\ hnd' = [hnd EXCEPT ![s] =
                       [th \in Threads |-> CloseFd(@[th], IF sp THEN "sec" ELSE "pri")]]
          /\ UNCHANGED inbox
     ELSE /\ state' = [state EXCEPT ![s] = "ONLINE"]
          /\ inbox' = [inbox EXCEPT ![s] = Append(@,
               [type |-> IF sp THEN "UPDATE_SECONDARY_FAILED" ELSE "UPDATE_PRIMARY_FAILED",
                sid |-> s, no |-> recovery_no[t]])]
          /\ UNCHANGED <<secondary_fd, primary_fd, tasks, hnd>>
  /\ UNCHANGED <<alive, primary_hash, secondary_hash, client_fd_table, locked,
                 main_pc, reply, acked>>

(* send_request for UPDATE_PRIMARY / UPDATE_SECONDARY: nothing is delivered *)
(* when the socket is closed or the server no longer runs                  *)
send_request(s, t, sp) ==
  IF socket_fd_out[s] /\ alive[s]
  THEN send_to_replacement(s, t, sp)
  ELSE UNCHANGED <<dvars, svars, inbox>>

(* Recovery step 2: UPDATE_PRIMARY to Sb *)
MUpdatePrimary ==
  /\ m_pc = "upd_primary"
  /\ send_request(secondary_server_id(m_i, num_servers), m_i, FALSE)
  /\ m_pc' = "upd_secondary"
  /\ UNCHANGED <<server_timeout, server_status, updated_primary_accepted,
                 updated_secondary_accepted, ignore_put, hb_seen, hb_age,
                 socket_fd_in, socket_fd_out, m_i, m_sw, recovery_no,
                 ack_primary_no, ack_secondary_no, update_failed_no, lvars, budget>>

(* Recovery step 5: UPDATE_SECONDARY to Sc, then the pass goes on *)
MUpdateSecondary ==
  /\ m_pc = "upd_secondary"
  /\ send_request(primary_server_id(m_i, num_servers), m_i, TRUE)
  /\ m_pc' = "detect"
  /\ m_i' = m_i + 1
  /\ UNCHANGED <<server_timeout, server_status, updated_primary_accepted,
                 updated_secondary_accepted, ignore_put, hb_seen, hb_age,
                 socket_fd_in, socket_fd_out, m_sw, recovery_no,
                 ack_primary_no, ack_secondary_no, update_failed_no, lvars, budget>>


(* ---------------- M: messages of the servers (process_server_message) --- *)

HasMsg(from) == {j \in Srv : j >= from /\ socket_fd_in[j] /\ inbox[j] # <<>>}

(* The message pass is over and no locate request waits: next iteration *)
MMsgNone ==
  /\ m_pc = "msgs"
  /\ HasMsg(m_i) = {}
  /\ m_pc' = "select"
  /\ UNCHANGED <<server_timeout, server_status, updated_primary_accepted,
                 updated_secondary_accepted, ignore_put, hb_seen, hb_age,
                 socket_fd_in, socket_fd_out, m_i, m_sw, recovery_no,
                 ack_primary_no, ack_secondary_no, update_failed_no, lvars, dvars, svars, inbox,
                 budget>>

MMsgHeartbeat ==
  /\ m_pc = "msgs"
  /\ HasMsg(m_i) # {}
  /\ LET j == Min(HasMsg(m_i))
         msg == Head(inbox[j]) IN
       /\ msg.type = "HEARTBEAT"
       /\ hb_age' = [hb_age EXCEPT ![msg.sid] = 0]
       /\ hb_seen' = [hb_seen EXCEPT ![msg.sid] = TRUE]
       /\ inbox' = [inbox EXCEPT ![j] = Tail(@)]
       /\ m_i' = j + 1
  /\ UNCHANGED <<server_timeout, server_status, updated_primary_accepted,
                 updated_secondary_accepted, ignore_put, socket_fd_in,
                 socket_fd_out, m_pc, m_sw, recovery_no, ack_primary_no,
                 ack_secondary_no, update_failed_no, lvars, dvars, svars, budget>>


(* The replacement a failure report of server sid is about *)
FailedSaa(msg) == IF msg.type = "UPDATE_PRIMARY_FAILED"
                  THEN primary_server_id(msg.sid, num_servers)
                  ELSE secondary_server_id(msg.sid, num_servers)

(* UPDATE_PRIMARY_FAILED / UPDATE_SECONDARY_FAILED: the cases are empty;    *)
(* update_failed_no records the recovery the message was sent for          *)
MMsgFailed ==
  /\ m_pc = "msgs"
  /\ HasMsg(m_i) # {}
  /\ LET j == Min(HasMsg(m_i))
         msg == Head(inbox[j]) IN
       /\ msg.type \in {"UPDATE_PRIMARY_FAILED", "UPDATE_SECONDARY_FAILED"}
       /\ inbox' = [inbox EXCEPT ![j] = Tail(@)]
       /\ update_failed_no' = [update_failed_no EXCEPT ![FailedSaa(msg)] = msg.no]
       /\ m_i' = j + 1
  /\ UNCHANGED <<server_timeout, server_status, updated_primary_accepted,
                 updated_secondary_accepted, ignore_put, hb_seen, hb_age,
                 socket_fd_in, socket_fd_out, m_pc, m_sw, recovery_no,
                 ack_primary_no, ack_secondary_no, lvars, dvars, svars, budget>>

(* The replacement an acknowledgement of server sid is about *)
AckSaa(msg) == IF msg.type = "UPDATED_PRIMARY"
               THEN primary_server_id(msg.sid, num_servers)
               ELSE secondary_server_id(msg.sid, num_servers)

(* UPDATED_PRIMARY / UPDATED_SECONDARY: record the flag; with both flags,   *)
(* handle_switch_primary starts: ignore_put on Saa and Sb, SWITCH_PRIMARY   *)
(* to Sb, whose control dispatcher enters the flush.                        *)
MMsgUpdated ==
  /\ m_pc = "msgs"
  /\ HasMsg(m_i) # {}
  /\ LET j == Min(HasMsg(m_i))
         msg == Head(inbox[j])
         Saa == AckSaa(msg)
         Sb == secondary_server_id(Saa, num_servers)
         isP == msg.type = "UPDATED_PRIMARY"
         both == IF isP THEN updated_secondary_accepted[Saa]
                 ELSE updated_primary_accepted[Saa] IN
       /\ msg.type \in {"UPDATED_PRIMARY", "UPDATED_SECONDARY"}
       /\ inbox' = [inbox EXCEPT ![j] = Tail(@)]
       /\ m_i' = j + 1
       /\ updated_primary_accepted' =
            IF isP THEN [updated_primary_accepted EXCEPT ![Saa] = TRUE]
            ELSE updated_primary_accepted
       /\ updated_secondary_accepted' =
            IF isP THEN updated_secondary_accepted
            ELSE [updated_secondary_accepted EXCEPT ![Saa] = TRUE]
       /\ ack_primary_no' = IF isP THEN [ack_primary_no EXCEPT ![Saa] = msg.no]
                            ELSE ack_primary_no
       /\ ack_secondary_no' = IF isP THEN ack_secondary_no
                              ELSE [ack_secondary_no EXCEPT ![Saa] = msg.no]
       /\ IF both
          THEN /\ ignore_put' = [ignore_put EXCEPT ![Saa] = TRUE, ![Sb] = TRUE]
               /\ m_sw' = <<Saa, Sb>>
               /\ m_pc' = "sw_wait"
               /\ IF socket_fd_out[Sb] /\ alive[Sb]
                  THEN /\ state' = [state EXCEPT ![Sb] = "SWITCHING_PRIMARY"]
                       /\ main_pc' = [main_pc EXCEPT ![Sb] = "flush"]
                  ELSE UNCHANGED <<state, main_pc>>
          ELSE UNCHANGED <<ignore_put, m_sw, m_pc, state, main_pc>>
  /\ UNCHANGED <<server_timeout, server_status, hb_seen, hb_age, socket_fd_in,
                 socket_fd_out, recovery_no, update_failed_no, lvars, dvars, alive, send_primary,
                 primary_fd, secondary_fd, tasks, budget>>

(* process_mserver_message, SWITCH_PRIMARY: after the flush loop the server *)
(* answers CTRLREQ_SUCCESS and stores KV_SERVER_ONLINE                      *)
SFlushDone(s) ==
  /\ main_pc[s] = "flush"
  /\ hnd[s]["main"].pc = "idle"
  /\ client_fd_table[s] = {}
  /\ state' = [state EXCEPT ![s] = "ONLINE"]
  /\ main_pc' = [main_pc EXCEPT ![s] = "loop"]
  /\ UNCHANGED <<mvars, lvars, dvars, alive, send_primary, primary_fd,
                 secondary_fd, tasks, inbox, budget>>

(* Variant: the result of send_set_secondary is not looked at *)
MSetSecondary_unchecked ==
  /\ m_pc = "sw_wait"
  /\ LET Saa == m_sw[1]
         Sb == m_sw[2]
         to == secondary_server_id(Saa, num_servers) IN
       /\ main_pc[Sb] = "loop"
       /\ secondary_fd' = IF alive[Saa]
                          THEN [secondary_fd EXCEPT ![Saa] =
                                  IF alive[to] THEN NewConn(to) ELSE NoConn]
                          ELSE secondary_fd
       /\ ignore_put' = [ignore_put EXCEPT ![Saa] = FALSE, ![Sb] = FALSE]
       /\ server_status' = [server_status EXCEPT ![Saa] = "ONLINE"]
  /\ m_pc' = "msgs"
  /\ UNCHANGED <<server_timeout, updated_primary_accepted,
                 updated_secondary_accepted, hb_seen, hb_age, socket_fd_in,
                 socket_fd_out, m_i, m_sw, recovery_no, ack_primary_no,
                 ack_secondary_no, update_failed_no, lvars, dvars, alive, state, send_primary,
                 primary_fd, tasks, main_pc, inbox, budget>>

(* Variant: SET_SECONDARY succeeds whenever the replacement runs, whether   *)
(* or not it can connect to its secondary                                   *)
MSetSecondary_no_connect ==
  /\ m_pc = "sw_wait"
  /\ LET Saa == m_sw[1]
         Sb == m_sw[2]
         to == secondary_server_id(Saa, num_servers)
         ok == alive[Saa] IN
       /\ main_pc[Sb] = "loop"
       /\ secondary_fd' = IF alive[Saa]
                          THEN [secondary_fd EXCEPT ![Saa] =
                                  IF alive[to] THEN NewConn(to) ELSE NoConn]
                          ELSE secondary_fd
       /\ ignore_put' = IF ok THEN [ignore_put EXCEPT ![Saa] = FALSE, ![Sb] = FALSE]
                        ELSE ignore_put
       /\ server_status' = IF ok THEN [server_status EXCEPT ![Saa] = "ONLINE"]
                           ELSE server_status
  /\ m_pc' = "msgs"
  /\ UNCHANGED <<server_timeout, updated_primary_accepted,
                 updated_secondary_accepted, hb_seen, hb_age, socket_fd_in,
                 socket_fd_out, m_i, m_sw, recovery_no, ack_primary_no,
                 ack_secondary_no, update_failed_no, lvars, dvars, alive, state, send_primary,
                 primary_fd, tasks, main_pc, inbox, budget>>

(* handle_switch_primary after send_request(Sb, SWITCH_PRIMARY) returned    *)
(* (its result is not looked at): send_set_secondary(Saa); the replacement  *)
(* connects to its secondary; on success M clears ignore_put and marks Saa  *)
(* ONLINE, otherwise it returns at once.                                    *)
MSetSecondary ==
  /\ m_pc = "sw_wait"
  /\ LET Saa == m_sw[1]
         Sb == m_sw[2]
         to == secondary_server_id(Saa, num_servers)
         ok == alive[Saa] /\ alive[to] IN
       /\ main_pc[Sb] = "loop"
       /\ secondary_fd' = IF alive[Saa]
                          THEN [secondary_fd EXCEPT ![Saa] =
                                  IF alive[to] THEN NewConn(to) ELSE NoConn]
                          ELSE secondary_fd
       /\ ignore_put' = IF ok THEN [ignore_put EXCEPT ![Saa] = FALSE, ![Sb] = FALSE]
                        ELSE ignore_put
       /\ server_status' = IF ok THEN [server_status EXCEPT ![Saa] = "ONLINE"]
                           ELSE server_status
  /\ m_pc' = "msgs"
  /\ UNCHANGED <<server_timeout, updated_primary_accepted,
                 updated_secondary_accepted, hb_seen, hb_age, socket_fd_in,
                 socket_fd_out, m_i, m_sw, recovery_no, ack_primary_no,
                 ack_secondary_no, update_failed_no, lvars, dvars, alive, state, send_primary,
                 primary_fd, tasks, main_pc, inbox, budget>>

(* ---------------- M: locate requests (process_client_message) ----------- *)

(* Variant: only a FAILED owner is redirected *)
locate_server_failed_only(key) ==
  LET sid == key_server_id(key, num_servers) IN
    IF server_status[sid] = "FAILED"
    THEN secondary_server_id(sid, num_servers)
    ELSE sid

(* Variant: a key is redirected once its owner has ever been recovered *)
locate_server_sticky(key) ==
  LET sid == key_server_id(key, num_servers) IN
    IF server_status[sid] # "ONLINE" \/ recovery_no[sid] > 0
    THEN secondary_server_id(sid, num_servers)
    ELSE sid

(* Variant: the locate request is answered whatever ignore_put says *)
MLocate_always_answers(k) ==
  /\ m_pc = "msgs"
  /\ HasMsg(m_i) = {}
  /\ m_pc' = "select"
  /\ locate_resp' =
       LET sid == key_server_id(k, num_servers)
           to == IF server_status[sid] # "ONLINE"
                 THEN secondary_server_id(sid, num_servers) ELSE sid IN
         [key |-> k, server |-> to, online |-> server_status[sid] = "ONLINE"]
  /\ UNCHANGED <<server_timeout, server_status, updated_primary_accepted,
                 updated_secondary_accepted, ignore_put, hb_seen, hb_age,
                 socket_fd_in, socket_fd_out, m_i, m_sw, recovery_no,
                 ack_primary_no, ack_secondary_no, update_failed_no, dvars, svars, inbox, budget>>

(* The server a locate request for key is answered with *)
locate_server(key) ==
  LET sid == key_server_id(key, num_servers) IN
    IF server_status[sid] # "ONLINE"
    THEN secondary_server_id(sid, num_servers)
    ELSE sid

(* After the message pass a locate request for key k is read and answered, *)
(* unless ignore_put                                                       *)
MLocate(k) ==
  /\ m_pc = "msgs"
  /\ HasMsg(m_i) = {}
  /\ m_pc' = "select"
  /\ locate_resp' =
       IF ~ignore_put[locate_server(k)]
       THEN [key |-> k, server |-> locate_server(k),
             online |-> server_status[key_server_id(k, num_servers)] = "ONLINE"]
       ELSE NoLocate
  /\ UNCHANGED <<server_timeout, server_status, updated_primary_accepted,
                 updated_secondary_accepted, ignore_put, hb_seen, hb_age,
                 socket_fd_in, socket_fd_out, m_i, m_sw, recovery_no,
                 ack_primary_no, ack_secondary_no, update_failed_no, dvars, svars, inbox, budget>>

(* The client reads the locate response *)
ClientRecvLocate ==
  /\ locate_resp # NoLocate
  /\ locate_resp' = NoLocate
  /\ UNCHANGED <<mvars, dvars, svars, inbox, budget>>

(* ======================== key-value servers ============================ *)

(* Crash-stop of a key-value server process *)
Crash(i) ==
  /\ alive[i]
  /\ budget.crash > 0
  /\ budget' = [budget EXCEPT !.crash = @ - 1]
  /\ StopServer(i)
  /\ UNCHANGED <<mvars, lvars, reply, acked, inbox>>

(* send_msg on a peer descriptor *)
(* Variant: the connection hands a later message over before an earlier one *)
Send_unordered(c, m) == IF c.to # -1 /\ c.ok THEN [c EXCEPT !.req = <<m>> \o @] ELSE c

Send(c, m) == IF c.to # -1 /\ c.ok THEN [c EXCEPT !.req = Append(@, m)] ELSE c

(* send_table_task starts: picks the table to iterate *)
TStart(s) ==
  \E t \in tasks[s] :
    /\ t.pc = "start"
    /\ tasks' = [tasks EXCEPT ![s] = (@ \ {t}) \cup
         {[t EXCEPT !.pc = "iter", !.tbl = IF send_primary[s] THEN "P" ELSE "S"]}]
    /\ UNCHANGED <<mvars, lvars, dvars, alive, state, send_primary, primary_fd,
                   secondary_fd, main_pc, inbox, budget>>

TaskTable(s, t) == IF t.tbl = "P" THEN primary_hash[s] ELSE secondary_hash[s]
TaskRest(s, t) == {k \in Keys : k >= t.cur /\ TaskTable(s, t)[k] # NoVal}

(* hash_iterate reaches the next entry: send_table_iterator_f sends it as a *)
(* PUT on secondary_fd or primary_fd and reads no reply                     *)
TSend(s) ==
  \E t \in tasks[s] :
    /\ t.pc = "iter"
    /\ TaskRest(s, t) # {}
    /\ LET k == Min(TaskRest(s, t))
           m == [key |-> k, val |-> TaskTable(s, t)[k], src |-> "stream"] IN
         /\ secondary_fd' = IF send_primary[s]
                            THEN [secondary_fd EXCEPT ![s] = Send(@, m)]
                            ELSE secondary_fd
         /\ primary_fd' = IF send_primary[s] THEN primary_fd
                          ELSE [primary_fd EXCEPT ![s] = Send(@, m)]
         /\ tasks' = [tasks EXCEPT ![s] = (@ \ {t}) \cup {[t EXCEPT !.cur = k + 1]}]
    /\ UNCHANGED <<mvars, lvars, dvars, alive, state, send_primary, main_pc,
                   inbox, budget>>

(* The iteration is over: UPDATED_PRIMARY / UPDATED_SECONDARY goes to M *)
TAck(s) ==
  \E t \in tasks[s] :
    /\ t.pc = "iter"
    /\ TaskRest(s, t) = {}
    /\ inbox' = [inbox EXCEPT ![s] = Append(@,
         [type |-> IF send_primary[s] THEN "UPDATED_SECONDARY" ELSE "UPDATED_PRIMARY",
          sid |-> s, no |-> t.no])]
    /\ tasks' = [tasks EXCEPT ![s] = (@ \ {t}) \cup {[t EXCEPT !.pc = "fin"]}]
    /\ UNCHANGED <<mvars, lvars, dvars, alive, state, send_primary, primary_fd,
                   secondary_fd, main_pc, budget>>

(* Last statement of send_table_task: state = KV_SERVER_ONLINE *)
TFin(s) ==
  \E t \in tasks[s] :
    /\ t.pc = "fin"
    /\ state' = [state EXCEPT ![s] = "ONLINE"]
    /\ tasks' = [tasks EXCEPT ![s] = @ \ {t}]
    /\ UNCHANGED <<mvars, lvars, dvars, alive, send_primary, primary_fd,
                   secondary_fd, main_pc, inbox, budget>>

(* --------------- clients of the key-value servers ---------------------- *)

(* Every PUT of a run carries a value of its own *)
NextVal == MaxOps - budget.ops + 1

(* A client connects to server s and sends one request; process_client_task *)
(* accepts the connection into client_fd_table                              *)
ClientPut(s, k) ==
  /\ alive[s]
  /\ budget.ops > 0
  /\ budget' = [budget EXCEPT !.ops = @ - 1]
  /\ client_fd_table' = [client_fd_table EXCEPT ![s] =
       @ \cup {[op |-> "PUT", key |-> k, val |-> NextVal]}]
  /\ UNCHANGED <<mvars, lvars, primary_hash, secondary_hash, hnd, locked, reply,
                 acked, svars, inbox>>

ClientGet(s, k) ==
  /\ alive[s]
  /\ budget.ops > 0
  /\ budget' = [budget EXCEPT !.ops = @ - 1]
  /\ client_fd_table' = [client_fd_table EXCEPT ![s] =
       @ \cup {[op |-> "GET", key |-> k, val |-> NoVal]}]
  /\ UNCHANGED <<mvars, lvars, primary_hash, secondary_hash, hnd, locked, reply,
                 acked, svars, inbox>>

(* Two clients connect to server s at the same time, each with a PUT for    *)
(* key k; both connections are accepted into client_fd_table                *)
ClientPutPair(s, k) ==
  /\ alive[s]
  /\ budget.ops >= 2
  /\ budget' = [budget EXCEPT !.ops = @ - 2]
  /\ client_fd_table' = [client_fd_table EXCEPT ![s] =
       @ \cup {[op |-> "PUT", key |-> k, val |-> NextVal],
               [op |-> "PUT", key |-> k, val |-> NextVal + 1]}]
  /\ UNCHANGED <<mvars, lvars, primary_hash, secondary_hash, hnd, locked, reply,
                 acked, svars, inbox>>

(* The client reads the response (or sees the connection closed) *)
ClientRecvReply ==
  /\ reply # NoReply
  /\ reply' = NoReply
  /\ UNCHANGED <<mvars, lvars, primary_hash, secondary_hash, hnd,
                 client_fd_table, locked, acked, svars, inbox, budget>>

(* ------------- process_client_message (key-value server) --------------- *)

(* The thread that runs the handler: the client dispatcher while the server *)
(* is not flushing, the control dispatcher inside the SWITCH_PRIMARY flush  *)
CanRun(s, th) ==
  /\ alive[s]
  /\ IF th = "main" THEN main_pc[s] = "flush" ELSE TRUE

(* The response sent on the client connection; status NONE: the handler     *)
(* returned without send_msg and the connection is closed                   *)
Respond(s, th, h, status, val) ==
  /\ reply = NoReply
  /\ reply' = [srv |-> s, op |-> h.op, key |-> h.key, val |-> val,
               status |-> status, tbl |-> h.tbl, st |-> state[s],
               why |-> IF status = "SERVER_FAILURE" THEN "key" ELSE "done"]
  /\ acked' = IF h.op = "PUT" /\ status = "SUCCESS"
              THEN [acked EXCEPT ![h.key] = val] ELSE acked
  /\ hnd' = [hnd EXCEPT ![s][th] = IdleH]

(* process_client_task while state is KV_SWITCHING_PRIMARY: SERVER_FAILURE *)
ClSwitchReject(s) ==
  /\ alive[s]
  /\ hnd[s]["cl"].pc = "idle"
  /\ state[s] = "SWITCHING_PRIMARY"
  /\ reply = NoReply
  /\ \E r \in client_fd_table[s] :
       /\ client_fd_table' = [client_fd_table EXCEPT ![s] = @ \ {r}]
       /\ reply' = [srv |-> s, op |-> r.op, key |-> r.key, val |-> NoVal,
                    status |-> "SERVER_FAILURE", tbl |-> "P", st |-> state[s],
                    why |-> "switching"]
  /\ UNCHANGED <<hnd, acked>>
  /\ UNCHANGED <<mvars, lvars, primary_hash, secondary_hash, locked, svars,
                 inbox, budget>>

(* The request is read; first disjunct of the key check *)
HRecv(s, th) ==
  /\ CanRun(s, th)
  /\ hnd[s][th].pc = "idle"
  /\ th = "cl" => state[s] # "SWITCHING_PRIMARY"
  /\ \E r \in client_fd_table[s] :
       LET key_srv_id == key_server_id(r.key, num_servers)
           secondary_srv_id == secondary_server_id(key_srv_id, num_servers)
           h == [IdleH EXCEPT !.op = r.op, !.key = r.key, !.val = r.val] IN
         /\ client_fd_table' = [client_fd_table EXCEPT ![s] = @ \ {r}]
         /\ IF key_srv_id = s
            THEN /\ hnd' = [hnd EXCEPT ![s][th] = [h EXCEPT !.pc = "op"]]
                 /\ UNCHANGED <<reply, acked>>
            ELSE IF state[s] # "UPDATING_PRIMARY"
            THEN Respond(s, th, h, "SERVER_FAILURE", NoVal)
            ELSE /\ hnd' = [hnd EXCEPT ![s][th] =
                      [h EXCEPT !.pc = IF secondary_srv_id = s THEN "sel" ELSE "chk2"]]
                 /\ UNCHANGED <<reply, acked>>
  /\ UNCHANGED <<mvars, lvars, primary_hash, secondary_hash, locked, svars,
                 inbox, budget>>

(* Second disjunct of the key check: state is read again *)
HCheck2(s, th) ==
  /\ CanRun(s, th)
  /\ hnd[s][th].pc = "chk2"
  /\ IF state[s] = "UPDATING_PRIMARY"
     THEN Respond(s, th, hnd[s][th], "SERVER_FAILURE", NoVal)
     ELSE /\ hnd' = [hnd EXCEPT ![s][th].pc = "op"]
          /\ UNCHANGED <<reply, acked>>
  /\ UNCHANGED <<mvars, lvars, primary_hash, secondary_hash, client_fd_table,
                 locked, svars, inbox, budget>>

(* secondary_as_primary: state is read a third time; table selection *)
secondary_as_primary(s, key) ==
  /\ state[s] = "UPDATING_PRIMARY"
  /\ secondary_server_id(key_server_id(key, num_servers), num_servers) = s

HSelect(s, th) ==
  /\ CanRun(s, th)
  /\ hnd[s][th].pc = "sel"
  /\ hnd' = [hnd EXCEPT ![s][th] = [@ EXCEPT !.pc = "op",
       !.tbl = IF secondary_as_primary(s, hnd[s][th].key) THEN "S" ELSE "P"]]
  /\ UNCHANGED <<mvars, lvars, primary_hash, secondary_hash, client_fd_table,
                 locked, reply, acked, svars, inbox, budget>>

Table(s, tbl) == IF tbl = "P" THEN primary_hash[s] ELSE secondary_hash[s]

HGet(s, th) ==
  /\ CanRun(s, th)
  /\ hnd[s][th].pc = "op"
  /\ hnd[s][th].op = "GET"
  /\ LET h == hnd[s][th]
         v == Table(s, h.tbl)[h.key] IN
       Respond(s, th, h, IF v = NoVal THEN "KEY_NOT_FOUND" ELSE "SUCCESS", v)
  /\ UNCHANGED <<mvars, lvars, primary_hash, secondary_hash, client_fd_table,
                 locked, svars, inbox, budget>>

(* OP_PUT: malloc or hash_put fails, OUT_OF_SPACE *)
HPutOom(s, th) ==
  /\ CanRun(s, th)
  /\ hnd[s][th].pc = "op"
  /\ hnd[s][th].op = "PUT"
  /\ budget.oom > 0
  /\ budget' = [budget EXCEPT !.oom = @ - 1]
  /\ Respond(s, th, hnd[s][th], "OUT_OF_SPACE", NoVal)
  /\ UNCHANGED <<mvars, lvars, primary_hash, secondary_hash, client_fd_table,
                 locked, svars, inbox>>

(* Variant: every PUT is forwarded to the normal secondary *)
forward_fd_secondary(h) == "sec"

(* The descriptor the PUT is forwarded on *)
forward_fd(h) == IF h.tbl = "S" THEN "pri" ELSE "sec"
Fd(s, name) == IF name = "pri" THEN primary_fd[s] ELSE secondary_fd[s]

(* fd_is_valid *)
fd_is_valid(c) == c.to # -1

(* OP_PUT: hash_lock, hash_put, then the forward is sent when the           *)
(* descriptor is valid; otherwise hash_unlock and SUCCESS                   *)
HPut(s, th) ==
  /\ CanRun(s, th)
  /\ hnd[s][th].pc = "op"
  /\ hnd[s][th].op = "PUT"
  /\ LET h == hnd[s][th]
         name == forward_fd(h)
         m == [key |-> h.key, val |-> h.val, src |-> "fwd"] IN
       /\ <<h.tbl, h.key>> \notin locked[s]
       /\ primary_hash' = IF h.tbl = "P"
                          THEN [primary_hash EXCEPT ![s][h.key] = h.val]
                          ELSE primary_hash
       /\ secondary_hash' = IF h.tbl = "S"
                            THEN [secondary_hash EXCEPT ![s][h.key] = h.val]
                            ELSE secondary_hash
       /\ IF fd_is_valid(Fd(s, name))
          THEN /\ primary_fd' = IF name = "pri"
                                THEN [primary_fd EXCEPT ![s] = Send(@, m)]
                                ELSE primary_fd
               /\ secondary_fd' = IF name = "sec"
                                  THEN [secondary_fd EXCEPT ![s] = Send(@, m)]
                                  ELSE secondary_fd
               /\ locked' = [locked EXCEPT ![s] = @ \cup {<<h.tbl, h.key>>}]
               /\ hnd' = [hnd EXCEPT ![s][th] = [h EXCEPT !.pc = "fwd", !.fd = name]]
               /\ UNCHANGED <<reply, acked>>
          ELSE /\ Respond(s, th, h, "SUCCESS", h.val)
               /\ UNCHANGED <<primary_fd, secondary_fd, locked>>
  /\ UNCHANGED <<mvars, lvars, client_fd_table, alive, state, send_primary,
                 tasks, main_pc, inbox, budget>>

(* Variant: the key is unlocked only after a SUCCESS reply *)
HForwardReply_unlock_on_success(s, th) ==
  /\ CanRun(s, th)
  /\ hnd[s][th].pc = "fwd"
  /\ LET h == hnd[s][th]
         c == IF h.fd = "pri" THEN primary_fd[s] ELSE secondary_fd[s]
         got == h.fd # "closed" /\ c.resp # <<>>
         failed == h.fd = "closed" \/ (c.resp = <<>> /\ ~c.ok) IN
       /\ got \/ failed
       /\ locked' = IF got /\ Head(c.resp).status = "SUCCESS"
                    THEN [locked EXCEPT ![s] = @ \ {<<h.tbl, h.key>>}]
                    ELSE locked
       /\ primary_fd' = IF got /\ h.fd = "pri"
                        THEN [primary_fd EXCEPT ![s].resp = Tail(@)]
                        ELSE primary_fd
       /\ secondary_fd' = IF got /\ h.fd = "sec"
                          THEN [secondary_fd EXCEPT ![s].resp = Tail(@)]
                          ELSE secondary_fd
       /\ IF got /\ Head(c.resp).status = "SUCCESS"
          THEN Respond(s, th, h, "SUCCESS", h.val)
          ELSE Respond(s, th, h, "NONE", NoVal)
  /\ UNCHANGED <<mvars, lvars, primary_hash, secondary_hash, client_fd_table,
                 alive, state, send_primary, tasks, main_pc, inbox, budget>>

(* recv_msg of the forward reply; hash_unlock on every outcome; SUCCESS to  *)
(* the client only after a SUCCESS reply, otherwise return without reply    *)
HForwardReply(s, th) ==
  /\ CanRun(s, th)
  /\ hnd[s][th].pc = "fwd"
  /\ LET h == hnd[s][th]
         c == Fd(s, h.fd)
         got == h.fd # "closed" /\ c.resp # <<>>
         failed == h.fd = "closed" \/ (c.resp = <<>> /\ ~c.ok) IN
       /\ got \/ failed
       /\ locked' = [locked EXCEPT ![s] = @ \ {<<h.tbl, h.key>>}]
       /\ primary_fd' = IF got /\ h.fd = "pri"
                        THEN [primary_fd EXCEPT ![s].resp = Tail(@)]
                        ELSE primary_fd
       /\ secondary_fd' = IF got /\ h.fd = "sec"
                          THEN [secondary_fd EXCEPT ![s].resp = Tail(@)]
                          ELSE secondary_fd
       /\ IF got /\ Head(c.resp).status = "SUCCESS"
          THEN Respond(s, th, h, "SUCCESS", h.val)
          ELSE Respond(s, th, h, "NONE", NoVal)
  /\ UNCHANGED <<mvars, lvars, primary_hash, secondary_hash, client_fd_table,
                 alive, state, send_primary, tasks, main_pc, inbox, budget>>

(* ------------- process_server_message (key-value server) --------------- *)

(* Peer connections accepted by server t: the open descriptors of the other *)
(* servers that lead to it                                                  *)
PeerConns(t) == {<<s, name>> \in Srv \X {"pri", "sec"} :
                   /\ Fd(s, name).to = t
                   /\ Fd(s, name).ok
                   /\ Fd(s, name).req # <<>>}

PushResp(c, st) == [c EXCEPT !.req = Tail(@),
                              !.resp = Append(@, [status |-> st, src |-> Head(c.req).src])]

Answer(s, name, st) ==
  /\ primary_fd' = IF name = "pri"
                   THEN [primary_fd EXCEPT ![s] = PushResp(@, st)]
                   ELSE primary_fd
  /\ secondary_fd' = IF name = "sec"
                     THEN [secondary_fd EXCEPT ![s] = PushResp(@, st)]
                     ELSE secondary_fd

(* Variant: the table is chosen by the receiver's recovery state *)
peer_table_by_state(t, key) == IF state[t] = "ONLINE" THEN "S" ELSE "P"

(* The table a PUT from a peer is written to *)
peer_table(t, key) == IF t = key_server_id(key, num_servers) THEN "P" ELSE "S"

(* OP_PUT from a peer: written under the key's lock, answered SUCCESS;      *)
(* SERVER_FAILURE when this server is neither primary nor secondary         *)
SPeerPut(t) ==
  /\ alive[t]
  /\ main_pc[t] = "loop"
  /\ \E p \in PeerConns(t) :
       LET m == Head(Fd(p[1], p[2]).req)
           primary_srv_id == key_server_id(m.key, num_servers)
           secondary_srv_id == secondary_server_id(primary_srv_id, num_servers)
           tbl == peer_table(t, m.key) IN
         IF t # primary_srv_id /\ t # secondary_srv_id
         THEN /\ Answer(p[1], p[2], "SERVER_FAILURE")
              /\ UNCHANGED <<primary_hash, secondary_hash>>
         ELSE /\ <<tbl, m.key>> \notin locked[t]
              /\ primary_hash' = IF tbl = "P"
                                 THEN [primary_hash EXCEPT ![t][m.key] = m.val]
                                 ELSE primary_hash
              /\ secondary_hash' = IF tbl = "S"
                                   THEN [secondary_hash EXCEPT ![t][m.key] = m.val]
                                   ELSE secondary_hash
              /\ Answer(p[1], p[2], "SUCCESS")
  /\ UNCHANGED <<mvars, lvars, hnd, client_fd_table, locked, reply, acked,
                 alive, state, send_primary, tasks, main_pc, inbox, budget>>

(* OP_PUT from a peer: malloc or hash_put fails, OUT_OF_SPACE *)
SPeerOom(t) ==
  /\ alive[t]
  /\ main_pc[t] = "loop"
  /\ budget.oom > 0
  /\ budget' = [budget EXCEPT !.oom = @ - 1]
  /\ \E p \in PeerConns(t) : Answer(p[1], p[2], "OUT_OF_SPACE")
  /\ UNCHANGED <<mvars, lvars, dvars, alive, state, send_primary, tasks,
                 main_pc, inbox>>

(* A PUT for key k arrives on the peer connection that server s holds open  *)
(* under that name; recv_msg of the receiver takes any key                  *)
PeerRequest(s, name, k) ==
  /\ alive[s]
  /\ budget.ops > 0
  /\ fd_is_valid(Fd(s, name))
  /\ Fd(s, name).ok
  /\ budget' = [budget EXCEPT !.ops = @ - 1]
  /\ LET m == [key |-> k, val |-> NextVal, src |-> "peer"] IN
       /\ primary_fd' = IF name = "pri"
                        THEN [primary_fd EXCEPT ![s] = Send(@, m)]
                        ELSE primary_fd
       /\ secondary_fd' = IF name = "sec"
                          THEN [secondary_fd EXCEPT ![s] = Send(@, m)]
                          ELSE secondary_fd
  /\ UNCHANGED <<mvars, lvars, primary_hash, secondary_hash, hnd,
                 client_fd_table, locked, reply, acked, alive, state,
                 send_primary, tasks, main_pc, inbox>>

(* The server whose descriptor of that name leads to server t *)
PeerSender(t, name) == IF name = "pri" THEN secondary_server_id(t, num_servers)
                       ELSE primary_server_id(t, num_servers)

(* The main thread of server s is in its select loop: not inside the flush  *)
(* and not waiting in hash_lock                                             *)
MainFree(s) == main_pc[s] = "loop" /\ hnd[s]["main"].pc = "idle"

(* OP_PUT from a peer for a key that a client handler holds locked: the     *)
(* main thread has read the request and waits in hash_lock                  *)
SPeerLockWait(t) ==
  /\ alive[t]
  /\ MainFree(t)
  /\ \E p \in PeerConns(t) :
       LET m == Head(Fd(p[1], p[2]).req)
           primary_srv_id == key_server_id(m.key, num_servers)
           secondary_srv_id == secondary_server_id(primary_srv_id, num_servers)
           tbl == peer_table(t, m.key) IN
         /\ t = primary_srv_id \/ t = secondary_srv_id
         /\ p[1] = PeerSender(t, p[2])
         /\ <<tbl, m.key>> \in locked[t]
         /\ hnd' = [hnd EXCEPT ![t]["main"] =
              [pc |-> "lock", op |-> "PUT", key |-> m.key, val |-> m.val,
               tbl |-> tbl, fd |-> p[2]]]
  /\ UNCHANGED <<mvars, lvars, primary_hash, secondary_hash, client_fd_table,
                 locked, reply, acked, svars, inbox, budget>>

(* hash_lock returns: the value is written and the request is answered on   *)
(* the connection it came from, if that connection still exists             *)
SPeerLockDone(t) ==
  /\ alive[t]
  /\ hnd[t]["main"].pc = "lock"
  /\ LET h == hnd[t]["main"]
         s == PeerSender(t, h.fd)
         c == Fd(s, h.fd) IN
       /\ <<h.tbl, h.key>> \notin locked[t]
       /\ primary_hash' = IF h.tbl = "P"
                          THEN [primary_hash EXCEPT ![t][h.key] = h.val]
                          ELSE primary_hash
       /\ secondary_hash' = IF h.tbl = "S"
                            THEN [secondary_hash EXCEPT ![t][h.key] = h.val]
                            ELSE secondary_hash
       /\ IF c.to = t /\ c.ok /\ c.req # <<>>
          THEN Answer(s, h.fd, "SUCCESS")
          ELSE UNCHANGED <<primary_fd, secondary_fd>>
       /\ hnd' = [hnd EXCEPT ![t]["main"] = IdleH]
  /\ UNCHANGED <<mvars, lvars, client_fd_table, locked, reply, acked, alive,
                 state, send_primary, tasks, main_pc, inbox, budget>>

(* ------------------------------ shutdown -------------------------------- *)

(* select() returns with end-of-file on stdin: run_mserver_loop returns and *)
(* main calls cleanup                                                       *)
MEof ==
  /\ m_pc = "select"
  /\ locate_resp = NoLocate
  /\ m_pc' = "cleanup"
  /\ m_i' = 0
  /\ UNCHANGED <<server_timeout, server_status, updated_primary_accepted,
                 updated_secondary_accepted, ignore_put, hb_seen, hb_age,
                 socket_fd_in, socket_fd_out, m_sw, recovery_no, ack_primary_no,
                 ack_secondary_no, update_failed_no, lvars, dvars, svars, inbox,
                 budget>>

(* cleanup of the coordinator, node m_i: SHUTDOWN is sent when socket_fd_out *)
(* is open; for a node without a running process the sockets are closed and *)
(* the loop goes on, otherwise kill_safe waits for the process              *)
MCleanup ==
  /\ m_pc = "cleanup"
  /\ m_i < num_servers
  /\ IF alive[m_i]
     THEN /\ m_pc' = "cleanup_wait"
          /\ UNCHANGED <<m_i, socket_fd_in, socket_fd_out, inbox>>
     ELSE /\ m_pc' = "cleanup"
          /\ m_i' = m_i + 1
          /\ socket_fd_in' = [socket_fd_in EXCEPT ![m_i] = FALSE]
          /\ socket_fd_out' = [socket_fd_out EXCEPT ![m_i] = FALSE]
          /\ inbox' = [inbox EXCEPT ![m_i] = <<>>]
  /\ UNCHANGED <<server_timeout, server_status, updated_primary_accepted,
                 updated_secondary_accepted, ignore_put, hb_seen, hb_age, m_sw,
                 recovery_no, ack_primary_no, ack_secondary_no, update_failed_no,
                 lvars, dvars, svars, budget>>

(* The coordinator has left the cleanup loop and exits *)
MExit ==
  /\ m_pc = "cleanup"
  /\ m_i = num_servers
  /\ m_pc' = "done"
  /\ UNCHANGED <<server_timeout, server_status, updated_primary_accepted,
                 updated_secondary_accepted, ignore_put, hb_seen, hb_age,
                 socket_fd_in, socket_fd_out, m_i, m_sw, recovery_no,
                 ack_primary_no, ack_secondary_no, update_failed_no, lvars, dvars,
                 svars, inbox, budget>>

(* The process of node m_i ends while the coordinator waits in kill_safe *)
EndProcess ==
  /\ StopServer(m_i)
  /\ socket_fd_in' = [socket_fd_in EXCEPT ![m_i] = FALSE]
  /\ socket_fd_out' = [socket_fd_out EXCEPT ![m_i] = FALSE]
  /\ inbox' = [inbox EXCEPT ![m_i] = <<>>]
  /\ m_pc' = "cleanup"
  /\ m_i' = m_i + 1
  /\ UNCHANGED <<server_timeout, server_status, updated_primary_accepted,
                 updated_secondary_accepted, ignore_put, hb_seen, hb_age, m_sw,
                 recovery_no, ack_primary_no, ack_secondary_no, update_failed_no,
                 lvars, reply, acked, budget>>

(* process_mserver_message, SHUTDOWN: the main thread of the server reads   *)
(* the request, run_server_loop returns true and main returns 0             *)
SShutdown ==
  /\ m_pc = "cleanup_wait"
  /\ alive[m_i]
  /\ socket_fd_out[m_i]
  /\ MainFree(m_i)
  /\ EndProcess

(* The main thread of server s waits in hash_lock for a key held by a       *)
(* client handler of s whose forward the main thread of t has to answer     *)
WaitsFor(s, t) ==
  /\ alive[s]
  /\ alive[t]
  /\ hnd[s]["main"].pc = "lock"
  /\ hnd[s]["cl"].pc = "fwd"
  /\ hnd[s]["cl"].tbl = hnd[s]["main"].tbl
  /\ hnd[s]["cl"].key = hnd[s]["main"].key
  /\ hnd[s]["cl"].fd # "closed"
  /\ Fd(s, hnd[s]["cl"].fd).to = t
  /\ Fd(s, hnd[s]["cl"].fd).ok
  /\ Fd(s, hnd[s]["cl"].fd).resp = <<>>

(* The main threads of s and of another server wait for each other *)
Deadlocked(s) == \E t \in Srv \ {s} : WaitsFor(s, t) /\ WaitsFor(t, s)

(* kill_safe: the process has not ended when the timeout expires and is     *)
(* killed; it cannot end when SHUTDOWN was not sent or its main thread      *)
(* cannot return to select                                                  *)
MKill ==
  /\ m_pc = "cleanup_wait"
  /\ alive[m_i]
  /\ ~socket_fd_out[m_i] \/ Deadlocked(m_i)
  /\ EndProcess

(* ------------------------- specifications ------------------------------ *)

CoordBudget == [crash |-> MaxCrashes, spawn_fail |-> MaxSpawnFail, oom |-> 0, ops |-> 0]

InitCoord == InitWith(0, CoordBudget)

NextCoord ==
  \/ Tick \/ MSelect \/ MDetectNone \/ MDetect \/ MSpawnFail \/ MSpawnOk
  \/ MUpdatePrimary \/ MUpdateSecondary
  \/ MMsgNone \/ MMsgHeartbeat \/ MMsgFailed \/ MMsgUpdated \/ MSetSecondary
  \/ ClientRecvLocate
  \/ \E k \in Keys : MLocate(k)
  \/ \E s \in Srv : Crash(s) \/ SFlushDone(s) \/ TStart(s) \/ TAck(s) \/ TFin(s)

SpecCoord == InitCoord /\ [][NextCoord]_vars

(* One synchronous client: its next request is sent after the previous one *)
(* was answered or its connection was closed                               *)
ClientIdle ==
  /\ reply = NoReply
  /\ \A s \in Srv : client_fd_table[s] = {} /\ \A th \in Threads : hnd[s][th].pc = "idle"

(* Handler steps of process_client_message without allocation failures *)
HandlerStep(s, th) ==
  \/ HRecv(s, th) \/ HCheck2(s, th) \/ HSelect(s, th) \/ HGet(s, th)
  \/ HPut(s, th) \/ HForwardReply(s, th)

DataBudget == [crash |-> MaxDataCrashes, spawn_fail |-> 0, oom |-> 0, ops |-> MaxOps]

Init == InitWith(0, DataBudget)

Next ==
  \/ Tick \/ MSelect \/ MDetectNone \/ MDetect \/ MSpawnOk
  \/ MUpdatePrimary \/ MUpdateSecondary
  \/ MMsgNone \/ MMsgHeartbeat \/ MMsgUpdated \/ MSetSecondary
  \/ ClientRecvReply
  \/ \E s \in Srv :
       \/ Crash(s) \/ SFlushDone(s) \/ TStart(s) \/ TSend(s) \/ TAck(s) \/ TFin(s)
       \/ ClSwitchReject(s) \/ SPeerPut(s)
       \/ \E th \in Threads : HandlerStep(s, th)
       \/ \E k \in Keys : ClientIdle /\ (ClientPut(s, k) \/ ClientGet(s, k))

Spec == Init /\ [][Next]_vars

(* Key-value servers that all stay up, concurrent clients, allocation     *)
(* failures                                                               *)
LiveBudget == [crash |-> 0, spawn_fail |-> 0, oom |-> MaxOom, ops |-> MaxOps]

InitLive == InitWith(0, LiveBudget)

NextLive ==
  \/ ClientRecvReply
  \/ \E s \in Srv :
       \/ SPeerPut(s) \/ SPeerOom(s)
       \/ \E th \in Threads :
            \/ HRecv(s, th) \/ HGet(s, th) \/ HPut(s, th)
            \/ HForwardReply(s, th) \/ HPutOom(s, th)
       \/ \E k \in Keys : ClientPut(s, k) \/ ClientGet(s, k)

SpecLive == InitLive /\ [][NextLive]_vars

(* Key-value servers that all stay up; pairs of clients write the same key *)
(* at the same time; allocation failures                                   *)
InitRace == InitWith(0, LiveBudget)

NextRace ==
  \/ ClientRecvReply
  \/ \E s \in Srv :
       \/ SPeerPut(s) \/ SPeerOom(s)
       \/ \E th \in Threads :
            \/ HRecv(s, th) \/ HPut(s, th) \/ HForwardReply(s, th) \/ HPutOom(s, th)
       \/ \E k \in Keys : ClientPutPair(s, k)

SpecRace == InitRace /\ [][NextRace]_vars

(* Key-value servers with concurrent clients, allocation failures and a    *)
(* crash of a server process                                               *)
LockBudget == [crash |-> MaxDataCrashes, spawn_fail |-> 0, oom |-> MaxOom, ops |-> MaxOps]

InitLock == InitWith(0, LockBudget)

NextLock ==
  \/ ClientRecvReply
  \/ \E s \in Srv :
       \/ Crash(s) \/ SPeerPut(s) \/ SPeerOom(s)
       \/ \E th \in Threads :
            \/ HRecv(s, th) \/ HGet(s, th) \/ HPut(s, th)
            \/ HForwardReply(s, th) \/ HPutOom(s, th)
       \/ \E k \in Keys : ClientPut(s, k) \/ ClientGet(s, k)

SpecLock == InitLock /\ [][NextLock]_vars

(* Key-value servers and coordinator with a crash of a server and a crash   *)
(* of its replacement while the recovery streams run; a client writes       *)
(* before the first crash                                                   *)
StreamBudget == [crash |-> MaxCrashes, spawn_fail |-> 0, oom |-> 0, ops |-> MaxStreamOps]

InitStream == InitWith(0, StreamBudget)

(* The first crash strikes while no client request is being served, a      *)
(* further one strikes a replacement that is being streamed to              *)
CrashInStream(s) ==
  /\ IF budget.crash = MaxCrashes
     THEN ClientIdle
     ELSE /\ server_status[s] = "RECON"
          /\ \E t \in Srv : tasks[t] # {}
  /\ Crash(s)

(* The client sends its PUT to the server a locate request for the key is  *)
(* answered with, before any failure                                       *)
EarlyClient(s, k) ==
  /\ ClientIdle
  /\ s = locate_server(k)
  /\ budget.crash = MaxCrashes

NextStream ==
  \/ Tick \/ MSelect \/ MDetectNone \/ MDetect \/ MSpawnOk
  \/ MUpdatePrimary \/ MUpdateSecondary
  \/ MMsgNone \/ MMsgHeartbeat \/ MMsgFailed \/ MMsgUpdated \/ MSetSecondary
  \/ ClientRecvReply
  \/ \E s \in Srv :
       \/ CrashInStream(s) \/ SFlushDone(s)
       \/ TStart(s) \/ TSend(s) \/ TAck(s) \/ TFin(s)
       \/ SPeerPut(s)
       \/ \E th \in Threads : HRecv(s, th) \/ HPut(s, th) \/ HForwardReply(s, th)
       \/ \E k \in Keys : EarlyClient(s, k) /\ ClientPut(s, k)

SpecStream == InitStream /\ [][NextStream]_vars

(* Key-value servers and coordinator with a crash of a server and a crash   *)
(* of its replacement before the recovery streams start; a client of the    *)
(* shard whose recovery was reported as failed                              *)
InitAbort == InitWith(0, StreamBudget)

(* A crash after the first one strikes a replacement between its spawn and  *)
(* the UPDATE_PRIMARY / UPDATE_SECONDARY requests                           *)
CrashBeforeStream(s) ==
  /\ budget.crash < MaxCrashes =>
       /\ server_status[s] = "RECON"
       /\ m_pc \in {"upd_primary", "upd_secondary"}
  /\ Crash(s)

(* The coordinator has read UPDATE_*_FAILED for the current recovery of a *)
RecoveryAborted(a) == recovery_no[a] > 0 /\ update_failed_no[a] = recovery_no[a]

(* The client sends its request to the server a locate request for the key *)
(* is answered with, after the recovery of the key's shard was reported as *)
(* failed                                                                  *)
LateClient(s, k) ==
  /\ ClientIdle
  /\ s = locate_server(k)
  /\ RecoveryAborted(key_server_id(k, num_servers))

NextAbort ==
  \/ Tick \/ MSelect \/ MDetectNone \/ MDetect \/ MSpawnOk
  \/ MUpdatePrimary \/ MUpdateSecondary
  \/ MMsgNone \/ MMsgHeartbeat \/ MMsgFailed \/ MMsgUpdated \/ MSetSecondary
  \/ ClientRecvReply
  \/ \E s \in Srv :
       \/ CrashBeforeStream(s) \/ SFlushDone(s)
       \/ TStart(s) \/ TSend(s) \/ TAck(s) \/ TFin(s)
       \/ ClSwitchReject(s) \/ SPeerPut(s)
       \/ \E th \in Threads :
            \/ HRecv(s, th) \/ HSelect(s, th) \/ HGet(s, th)
            \/ HPut(s, th) \/ HForwardReply(s, th)
       \/ \E k \in Keys : LateClient(s, k) /\ (ClientPut(s, k) \/ ClientGet(s, k))

SpecAbort == InitAbort /\ [][NextAbort]_vars

(* Coordinator and key-value servers with one crash, concurrent clients of  *)
(* the recovered shard, and the shutdown of the system                      *)
InitShutdown == InitWith(0, DataBudget)

(* A client of a shard that is or was under recovery sends its PUT to the   *)
(* server the coordinator's locate answer names                             *)
ShardClient(s, k) ==
  /\ recovery_no[key_server_id(k, num_servers)] > 0
  /\ s = locate_server(k)
  /\ ~ignore_put[s]

(* A control request of the coordinator is answered by the main thread of   *)
(* the server; the coordinator waits for the answer                         *)
AllMainFree == \A s \in Srv : alive[s] => MainFree(s)

(* run_server_loop looks at the coordinator's socket before the peers': a   *)
(* server with SHUTDOWN pending reads no further peer request               *)
NoShutdownPending(s) == ~(m_pc = "cleanup_wait" /\ m_i = s)

NextShutdown ==
  \/ Tick \/ MSelect \/ MDetectNone \/ MDetect \/ MSpawnOk
  \/ AllMainFree /\ MUpdatePrimary
  \/ AllMainFree /\ MUpdateSecondary
  \/ AllMainFree /\ MMsgUpdated
  \/ AllMainFree /\ MSetSecondary
  \/ MMsgNone \/ MMsgHeartbeat
  \/ MEof \/ MCleanup \/ MExit \/ SShutdown \/ MKill
  \/ ClientRecvReply
  \/ \E s \in Srv :
       \/ Crash(s) \/ SFlushDone(s) \/ TStart(s) \/ TSend(s) \/ TAck(s) \/ TFin(s)
       \/ ClSwitchReject(s)
       \/ MainFree(s) /\ NoShutdownPending(s) /\ SPeerPut(s)
       \/ NoShutdownPending(s) /\ SPeerLockWait(s)
       \/ SPeerLockDone(s)
       \/ \E th \in Threads :
            \/ HRecv(s, th) \/ HSelect(s, th) \/ HPut(s, th) \/ HForwardReply(s, th)
       \/ \E k \in Keys : ShardClient(s, k) /\ ClientPut(s, k)

SpecShutdown == InitShutdown /\ [][NextShutdown]_vars

(* Peer requests for any key, allocation failures and one crash: the peer   *)
(* PUT handler in every recovery state of the receiver                      *)
PeerBudget == [crash |-> MaxDataCrashes, spawn_fail |-> 0, oom |-> MaxOom, ops |-> MaxOps]

InitPeer == InitWith(0, PeerBudget)

NextPeer ==
  \/ Tick \/ MSelect \/ MDetectNone \/ MDetect \/ MSpawnOk
  \/ MUpdatePrimary \/ MUpdateSecondary
  \/ MMsgNone \/ MMsgHeartbeat \/ MMsgUpdated \/ MSetSecondary
  \/ \E s \in Srv :
       \/ Crash(s) \/ SFlushDone(s) \/ TStart(s) \/ TSend(s) \/ TAck(s) \/ TFin(s)
       \/ SPeerPut(s) \/ SPeerOom(s)
       \/ \E name \in {"pri", "sec"} : \E k \in Keys : PeerRequest(s, name, k)

SpecPeer == InitPeer /\ [][NextPeer]_vars

(* One crash, clients that send to the server the coordinator names, and   *)
(* fair scheduling of the coordinator's loop and of every server thread     *)
InitFair == InitWith(0, DataBudget)

ViaLocate(s, k) ==
  /\ ClientIdle
  /\ s = locate_server(k)
  /\ ~ignore_put[s]

MStep ==
  \/ Tick \/ MSelect \/ MDetectNone \/ MDetect \/ MSpawnOk
  \/ MUpdatePrimary \/ MUpdateSecondary
  \/ MMsgNone \/ MMsgHeartbeat \/ MMsgUpdated \/ MSetSecondary

TaskStep(s) == TStart(s) \/ TSend(s) \/ TAck(s) \/ TFin(s)

MainStep(s) == SFlushDone(s) \/ SPeerPut(s)

ClientThreadStep(s) ==
  \/ ClSwitchReject(s)
  \/ \E th \in Threads :
       \/ HRecv(s, th) \/ HSelect(s, th) \/ HGet(s, th)
       \/ HPut(s, th) \/ HForwardReply(s, th)

NextFair ==
  \/ MStep
  \/ ClientRecvReply
  \/ \E s \in Srv :
       \/ Crash(s) \/ TaskStep(s) \/ MainStep(s) \/ ClientThreadStep(s)
       \/ \E k \in Keys : ViaLocate(s, k) /\ (ClientPut(s, k) \/ ClientGet(s, k))

Fairness ==
  /\ WF_vars(MStep)
  /\ WF_vars(ClientRecvReply)
  /\ \A s \in Srv :
       /\ WF_vars(TaskStep(s))
       /\ WF_vars(MainStep(s))
       /\ WF_vars(ClientThreadStep(s))

SpecFair == InitFair /\ [][NextFair]_vars /\ Fairness

(* Coordinator with locate requests, one crash and one failed spawn *)
LocateBudget == [crash |-> MaxDataCrashes, spawn_fail |-> MaxSpawnFail, oom |-> 0, ops |-> 0]

InitLocate == InitWith(0, LocateBudget)

NextLocate ==
  \/ Tick \/ MSelect \/ MDetectNone \/ MDetect \/ MSpawnFail \/ MSpawnOk
  \/ MUpdatePrimary \/ MUpdateSecondary
  \/ MMsgNone \/ MMsgHeartbeat \/ MMsgUpdated \/ MSetSecondary
  \/ ClientRecvLocate
  \/ \E k \in Keys : MLocate(k)
  \/ \E s \in Srv : Crash(s) \/ SFlushDone(s) \/ TStart(s) \/ TAck(s) \/ TFin(s)

SpecLocate == InitLocate /\ [][NextLocate]_vars

(* Coordinator started with any timeout argument (0: option not given) *)
InitDetector ==
  \E t \in 0..MaxTimeoutArg :
    InitWith(t, [crash |-> MaxDataCrashes, spawn_fail |-> 0, oom |-> 0, ops |-> 0])

NextDetector ==
  \/ Tick \/ MSelect \/ MDetectNone \/ MDetect \/ MSpawnOk
  \/ MUpdatePrimary \/ MUpdateSecondary
  \/ MMsgNone \/ MMsgHeartbeat \/ MMsgUpdated \/ MSetSecondary
  \/ \E s \in Srv : Crash(s) \/ SFlushDone(s) \/ TStart(s) \/ TAck(s) \/ TFin(s)

SpecDetector == InitDetector /\ [][NextDetector]_vars


(* ============================ properties ================================ *)

Owner(k) == key_server_id(k, num_servers)

(* C4: a locate response for any key never names a server whose status at  *)
(* the coordinator is FAILED.                                              *)
C4_LocateNeverNamesFailed ==
  locate_resp # NoLocate => server_status[locate_resp.server] # "FAILED"

(* C5: an answered locate request for key k names owner(k) when owner(k) is *)
(* ONLINE at the coordinator, and secondary(owner(k)) when it is FAILED or  *)
(* recovering.                                                              *)
C5_LocateRule ==
  locate_resp # NoLocate =>
    locate_resp.server =
      IF server_status[Owner(locate_resp.key)] = "ONLINE"
      THEN Owner(locate_resp.key)
      ELSE secondary_server_id(Owner(locate_resp.key), num_servers)

(* C5 happens: a locate is answered while the owner recovers, and one while *)
(* it is FAILED                                                             *)
C5_Witness ==
  /\ locate_resp # NoLocate
  /\ server_status[Owner(locate_resp.key)] = "RECON"
  /\ locate_resp.server = secondary_server_id(Owner(locate_resp.key), num_servers)

(* C6 as stated: the locate result depends on k and N only, so every        *)
(* answer names owner(k), the answer of a run without failures.             *)
C6_LocatePure ==
  locate_resp # NoLocate => locate_resp.server = Owner(locate_resp.key)

(* C6 amended: the locate result is owner(k) or secondary(owner(k)), both   *)
(* functions of k and N only, and it is owner(k) whenever owner(k) is       *)
(* ONLINE, whatever failures and recoveries came before.                    *)
C6_LocatePureWhileOnline ==
  locate_resp # NoLocate =>
    /\ locate_resp.server \in
         {Owner(locate_resp.key), secondary_server_id(Owner(locate_resp.key), num_servers)}
    /\ locate_resp.online => locate_resp.server = Owner(locate_resp.key)

(* C6 happens: after a completed recovery of owner(k) a locate names it     *)
C6_Witness ==
  /\ locate_resp # NoLocate
  /\ locate_resp.online
  /\ recovery_no[Owner(locate_resp.key)] > 0
  /\ locate_resp.server = Owner(locate_resp.key)

(* C7: the switch for a failed server begins only after UPDATED_PRIMARY and *)
(* UPDATED_SECONDARY of the current recovery of that server were received.  *)
C7_SwitchAfterBothAcks ==
  m_pc = "sw_wait" =>
    /\ ack_primary_no[m_sw[1]] = recovery_no[m_sw[1]]
    /\ ack_secondary_no[m_sw[1]] = recovery_no[m_sw[1]]

(* C8: a server is declared FAILED only when the time since its last        *)
(* heartbeat exceeds the configured detector timeout.                       *)
C8_FailedOnlyBeyondTimeout ==
  m_pc = "spawning" => hb_age[m_i] > server_timeout

(* A client reply is sent in this step *)
Replied == reply = NoReply /\ reply' # NoReply

(* The replica partner of the table a reply was served from, and the     *)
(* descriptor that leads to it                                            *)
Partner(r) == IF r.tbl = "P" THEN secondary_server_id(r.srv, num_servers) ELSE Owner(r.key)
PartnerFd(r) == IF r.tbl = "P" THEN secondary_fd[r.srv] ELSE primary_fd[r.srv]

(* The partner process runs, and it is the one the descriptor was opened to *)
PartnerUp(r) == alive[Partner(r)] /\ (fd_is_valid(PartnerFd(r)) => PartnerFd(r).ok)

(* C1: when a server answers SUCCESS to a client PUT(k,v), v is in the      *)
(* serving server's table for k and, the partner process still running, in  *)
(* its replica partner's table for k; this in every server state and        *)
(* whether or not a partner connection is established.                      *)
C1_SuccessMeansBothWritten ==
  [][(Replied /\ reply'.op = "PUT" /\ reply'.status = "SUCCESS" /\ PartnerUp(reply')) =>
       IF reply'.tbl = "P"
       THEN /\ primary_hash'[reply'.srv][reply'.key] = reply'.val
            /\ secondary_hash'[Partner(reply')][reply'.key] = reply'.val
       ELSE /\ secondary_hash'[reply'.srv][reply'.key] = reply'.val
            /\ primary_hash'[Partner(reply')][reply'.key] = reply'.val]_vars

(* The replacement of a and the surviving replicas hold the last          *)
(* acknowledged value of every key of a and of primary_of(a)               *)
RecoveredData(a) ==
  \A k \in Keys :
    acked[k] # NoVal =>
      /\ Owner(k) = a =>
           /\ primary_hash[a][k] = acked[k]
           /\ secondary_hash[secondary_server_id(a, num_servers)][k] = acked[k]
      /\ Owner(k) = primary_server_id(a, num_servers) =>
           /\ secondary_hash[a][k] = acked[k]
           /\ primary_hash[Owner(k)][k] = acked[k]

(* C2: when the coordinator marks the replacement of a crashed server a     *)
(* ONLINE (recovery complete), for every key PUT with SUCCESS before or     *)
(* during the recovery the replacement holds the last acknowledged value:   *)
(* keys of a in its primary table, keys of primary_of(a) in its secondary   *)
(* table, each equal to the surviving replica's value.                      *)
C2_NoDataLoss ==
  [][\A a \in Srv :
       (server_status[a] = "RECON" /\ server_status'[a] = "ONLINE" /\ ClientIdle') =>
         RecoveredData(a)']_vars

(* A client PUT for key k is queued, being handled or being forwarded *)
PutInFlight(k) ==
  \E s \in Srv :
    \/ \E r \in client_fd_table[s] : r.op = "PUT" /\ r.key = k
    \/ \E th \in Threads :
         hnd[s][th].pc # "idle" /\ hnd[s][th].op = "PUT" /\ hnd[s][th].key = k
    \/ \E n \in 1..Len(secondary_fd[s].req) : secondary_fd[s].req[n].key = k
    \/ \E n \in 1..Len(primary_fd[s].req) : primary_fd[s].req[n].key = k

(* C3: with all servers live and no PUT for k in flight, a successfully     *)
(* written key k has the same value in the primary table of owner(k) and    *)
(* in the secondary table of secondary(owner(k)).                           *)
C3_ReplicasAgree ==
  \A k \in Keys :
    (acked[k] # NoVal /\ ~PutInFlight(k)) =>
      primary_hash[Owner(k)][k] =
        secondary_hash[secondary_server_id(Owner(k), num_servers)][k]

(* C9: while the coordinator holds shard a as recovering, is answering    *)
(* locate requests and has not begun the switch for a, Sb = secondary(a)    *)
(* never rejects a client request for a key of a for key-owner mismatch.    *)
C9_InterimPrimaryServes ==
  [][(Replied /\ reply'.status = "SERVER_FAILURE" /\ reply'.why = "key") =>
       ~(/\ reply'.srv = secondary_server_id(Owner(reply'.key), num_servers)
         /\ server_status[Owner(reply'.key)] = "RECON"
         /\ m_pc \in {"select", "msgs"}
         /\ ~(/\ updated_primary_accepted[Owner(reply'.key)]
              /\ updated_secondary_accepted[Owner(reply'.key)]))]_vars

(* The step in which handler th of server s carries out a PUT *)
PutStep(s, th) ==
  /\ hnd[s][th].pc = "op"
  /\ hnd[s][th].op = "PUT"
  /\ hnd'[s][th].pc # "op"
  /\ alive'[s]
  /\ budget'.oom = budget.oom

Forwarded(c, h) == Append(c.req, [key |-> h.key, val |-> h.val, src |-> "fwd"])

(* C10: while Sb is in UPDATING_PRIMARY, a client PUT for a key of the      *)
(* failed shard selects and is written to Sb's secondary table and is sent  *)
(* to the replacement on primary_fd before the client is answered, and the  *)
(* client gets SUCCESS only after a SUCCESS reply was read on primary_fd; a *)
(* client PUT for a key of Sb's own shard is written to Sb's primary table  *)
(* and sent on secondary_fd.  Both forwards are stated for a connection     *)
(* whose peer is running.                                                   *)
C10_StreamingPrimaryPut ==
  [][\A s \in Srv : \A th \in Threads :
       LET h == hnd[s][th]
           failed == primary_server_id(s, num_servers) IN
         /\ (/\ h.pc = "sel" /\ hnd'[s][th].pc = "op"
             /\ state[s] = "UPDATING_PRIMARY" /\ Owner(h.key) = failed)
              => hnd'[s][th].tbl = "S"
         /\ (PutStep(s, th) /\ state[s] = "UPDATING_PRIMARY" /\ Owner(h.key) = failed
               /\ h.tbl = "S" /\ primary_fd[s].ok)
              => /\ secondary_hash'[s][h.key] = h.val
                 /\ primary_hash' = primary_hash
                 /\ primary_fd[s].to = failed
                 /\ primary_fd'[s].req = Forwarded(primary_fd[s], h)
                 /\ hnd'[s][th].pc = "fwd"
                 /\ reply' = reply
         /\ (PutStep(s, th) /\ state[s] = "UPDATING_PRIMARY" /\ Owner(h.key) = s
               /\ secondary_fd[s].ok)
              => /\ primary_hash'[s][h.key] = h.val
                 /\ secondary_hash' = secondary_hash
                 /\ secondary_fd[s].to = secondary_server_id(s, num_servers)
                 /\ secondary_fd'[s].req = Forwarded(secondary_fd[s], h)
         /\ (/\ Replied /\ reply'.srv = s /\ reply'.op = "PUT"
             /\ reply'.status = "SUCCESS" /\ reply'.tbl = "S" /\ h.pc = "fwd"
             /\ hnd'[s][th].pc = "idle")
              => /\ h.fd = "pri"
                 /\ primary_fd[s].resp # <<>>
                 /\ Head(primary_fd[s].resp).status = "SUCCESS"]_vars

(* C10 happens: in UPDATING_PRIMARY a PUT for a key of the failed shard is  *)
(* in Sb's secondary table and awaits the replacement's reply               *)
C10_Witness ==
  \E s \in Srv : \E th \in Threads :
    /\ state[s] = "UPDATING_PRIMARY"
    /\ hnd[s][th].pc = "fwd"
    /\ hnd[s][th].tbl = "S"
    /\ hnd[s][th].fd = "pri"
    /\ Owner(hnd[s][th].key) = primary_server_id(s, num_servers)
    /\ secondary_hash[s][hnd[s][th].key] = hnd[s][th].val
    /\ primary_fd[s].req # <<>>

(* A PUT for key k issued after the last acknowledged one has left a value  *)
(* in a table, a handler, a client connection or a peer connection          *)
LaterPut(k) ==
  \E s \in Srv :
    \/ primary_hash[s][k] > acked[k]
    \/ secondary_hash[s][k] > acked[k]
    \/ \E r \in client_fd_table[s] : r.op = "PUT" /\ r.key = k /\ r.val > acked[k]
    \/ \E th \in Threads :
         hnd[s][th].op = "PUT" /\ hnd[s][th].key = k /\ hnd[s][th].val > acked[k]
    \/ \E n \in 1..Len(secondary_fd[s].req) :
         secondary_fd[s].req[n].key = k /\ secondary_fd[s].req[n].val > acked[k]
    \/ \E n \in 1..Len(primary_fd[s].req) :
         primary_fd[s].req[n].key = k /\ primary_fd[s].req[n].val > acked[k]

(* C11: after a client PUT(k,v) was answered SUCCESS and with no later PUT  *)
(* for k, a client GET(k) answered by the server the coordinator's locate   *)
(* names for k returns SUCCESS with v, also across a recovery.              *)
C11_WriteReadRoundTrip ==
  [][(/\ Replied /\ reply'.op = "GET"
      /\ acked[reply'.key] # NoVal /\ ~LaterPut(reply'.key)
      /\ m_pc \in {"select", "msgs"}
      /\ reply'.srv = locate_server(reply'.key)
      /\ ~ignore_put[reply'.srv])
       => /\ reply'.status = "SUCCESS"
          /\ reply'.val = acked[reply'.key]]_vars

(* C12: two client PUTs for the same key k sent at the same time are        *)
(* applied to the secondary's table in the order in which they are applied  *)
(* to the primary's table: once both are complete the primary table of      *)
(* owner(k) and the secondary table of secondary(owner(k)) hold the same    *)
(* value for k.                                                             *)
C12_ConcurrentPutsSameOrder ==
  \A k \in Keys :
    (reply = NoReply /\ ~PutInFlight(k)) =>
      primary_hash[Owner(k)][k] =
        secondary_hash[secondary_server_id(Owner(k), num_servers)][k]

(* The keys of server s whose client PUT awaits the return of its forward *)
AwaitingForward(s) ==
  {<<hnd[s][th].tbl, hnd[s][th].key>> : th \in {t \in Threads : hnd[s][t].pc = "fwd"}}

(* C13: on the client PUT path the key's lock is held from the local write  *)
(* until the forward has returned, and it is released on every exit (local  *)
(* put failure, forward receive failure, non-SUCCESS forward reply,         *)
(* success): the locked keys of a server are exactly the keys of its PUTs   *)
(* that await the return of their forward.                                  *)
C13_LockDiscipline ==
  \A s \in Srv : locked[s] = AwaitingForward(s)

(* C13 happens: a PUT ended on a failed or non-SUCCESS forward, the handler *)
(* returned without an answer and the server holds no lock                  *)
C13_Witness ==
  /\ reply.op = "PUT"
  /\ reply.status = "NONE"
  /\ primary_hash[reply.srv][reply.key] # NoVal
  /\ locked[reply.srv] = {}

(* The outbound peer descriptor the recovery stream of server s writes to *)
StreamFd(s) == IF send_primary[s] THEN "sec" ELSE "pri"

(* send_table_task of server s writes one entry to its descriptor *)
StreamWrites(s) ==
  /\ tasks'[s] # tasks[s]
  /\ \E t \in tasks[s] : t.pc = "iter"
  /\ IF send_primary[s]
     THEN Len(secondary_fd'[s].req) = Len(secondary_fd[s].req) + 1
     ELSE Len(primary_fd'[s].req) = Len(primary_fd[s].req) + 1

(* C14: an outbound peer connection has one user at a time: the recovery    *)
(* stream never writes to secondary_fd (on Sc) or primary_fd (on Sb) while  *)
(* the client-request handler has a forward outstanding on that connection. *)
C14_OneWriterPerPeerSocket ==
  [][\A s \in Srv :
       StreamWrites(s) =>
         ~\E th \in Threads : hnd[s][th].pc = "fwd" /\ hnd[s][th].fd = StreamFd(s)]_vars

SwitchEnds(a) == m_pc = "sw_wait" /\ m_pc' # "sw_wait" /\ m_sw[1] = a

(* The replacement of a runs and has connected to its secondary: it answers *)
(* SET_SECONDARY with CTRLREQ_SUCCESS                                       *)
SetSecondaryOk(a) ==
  /\ alive[a]
  /\ secondary_fd'[a].to = secondary_server_id(a, num_servers)
  /\ secondary_fd'[a].ok

ThirdParty(s, k) ==
  Owner(k) # s /\ secondary_server_id(Owner(k), num_servers) # s

(* C17: a client GET or PUT for key k received by a server that is neither  *)
(* owner(k) nor the interim primary for owner(k) changes neither table of   *)
(* that server and is answered SERVER_FAILURE.  Stated for the servers that *)
(* can never be interim primary for owner(k).                               *)
C17_ForeignKeyRejected ==
  [][\A s \in Srv : \A th \in Threads :
       LET h == hnd[s][th] IN
         (/\ h.pc # "idle" /\ ThirdParty(s, h.key)
          /\ hnd'[s][th] # h /\ alive'[s])
           => /\ primary_hash'[s] = primary_hash[s]
              /\ secondary_hash'[s] = secondary_hash[s]
              /\ hnd'[s][th].pc = "idle" => reply'.status = "SERVER_FAILURE"]_vars

(* C18: when the forward of a client PUT is answered non-SUCCESS by the     *)
(* replica partner, or fails at connection level, the client receives a     *)
(* response with status SERVER_FAILURE.                                     *)
C18_ForwardFailureAnswered ==
  [][\A s \in Srv : \A th \in Threads :
       (/\ hnd[s][th].pc = "fwd" /\ hnd'[s][th].pc = "idle" /\ alive'[s]
        /\ reply'.srv = s /\ reply'.status # "SUCCESS")
         => reply'.status = "SERVER_FAILURE"]_vars

(* The connection the recovery stream of server s is sent on *)
StreamConn(s) == IF send_primary[s] THEN secondary_fd[s] ELSE primary_fd[s]

(* send_table_task of server s reports completion to the coordinator *)
Reports(s) ==
  /\ Len(inbox'[s]) = Len(inbox[s]) + 1
  /\ inbox'[s][Len(inbox'[s])].type \in {"UPDATED_PRIMARY", "UPDATED_SECONDARY"}

(* C19: when a streaming server reports completion, the last request it     *)
(* has sent on the connection to the replacement is the NOOP that closes    *)
(* the recovery channel.                                                    *)
C19_StreamEndsWithNoop ==
  [][\A s \in Srv :
       (Reports(s) /\ StreamConn(s).ok) =>
         /\ StreamConn(s).req # <<>>
         /\ StreamConn(s).req[Len(StreamConn(s).req)].src = "noop"]_vars

(* The control dispatcher of server s, inside the SWITCH_PRIMARY flush,     *)
(* answers a queued client request in this step                             *)
FlushAnswers(s) ==
  /\ state[s] = "SWITCHING_PRIMARY"
  /\ main_pc[s] = "flush"
  /\ Replied
  /\ reply'.srv = s
  /\ reply'.why # "switching"
  /\ hnd'[s]["cl"] = hnd[s]["cl"]

(* C20: on SWITCH_PRIMARY, (i) a client PUT for the failed shard that is    *)
(* queued at Sb is applied by the flush, not rejected, and is answered      *)
(* SUCCESS only with the value in Sb's secondary table; (ii) a client       *)
(* operation taken up by the client dispatcher during SWITCHING_PRIMARY is  *)
(* answered SERVER_FAILURE and no table changes.                            *)
C20_SwitchFlushesQueuedPuts ==
  [][\A s \in Srv :
       /\ (/\ FlushAnswers(s) /\ reply'.op = "PUT"
           /\ Owner(reply'.key) = primary_server_id(s, num_servers))
            => /\ reply'.status # "SERVER_FAILURE"
               /\ reply'.status = "SUCCESS" =>
                    secondary_hash'[s][reply'.key] = reply'.val
       /\ (Replied /\ reply'.srv = s /\ reply'.why = "switching")
            => /\ reply'.status = "SERVER_FAILURE"
               /\ primary_hash' = primary_hash
               /\ secondary_hash' = secondary_hash]_vars

(* The coordinator's UPDATE_PRIMARY or UPDATE_SECONDARY for the replacement *)
(* of m_i is delivered to server s in this step                             *)
UpdateDelivered(s) ==
  /\ \/ m_pc = "upd_primary" /\ s = secondary_server_id(m_i, num_servers)
     \/ m_pc = "upd_secondary" /\ s = primary_server_id(m_i, num_servers)
  /\ m_pc' # m_pc
  /\ socket_fd_out[s]
  /\ alive[s]

(* The table that send_table_task of server s reports as sent has entries *)
StreamHasEntries(s) ==
  \E t \in tasks[s] : t.pc = "iter" /\ \E k \in Keys : TaskTable(s, t)[k] # NoVal

(* C21: a server that cannot carry out a requested recovery stream sends    *)
(* UPDATE_PRIMARY_FAILED or UPDATE_SECONDARY_FAILED to the coordinator and  *)
(* is in state ONLINE afterwards, when the replacement cannot be connected  *)
(* to; and it never sends UPDATED_PRIMARY / UPDATED_SECONDARY for a table   *)
(* with entries while the connection to the replacement is broken.          *)
C21_StreamFailureReported ==
  [][\A s \in Srv :
       /\ (UpdateDelivered(s) /\ ~alive[m_i])
            => /\ state'[s] = "ONLINE"
               /\ tasks'[s] = tasks[s]
               /\ Len(inbox'[s]) = Len(inbox[s]) + 1
               /\ inbox'[s][Len(inbox'[s])].type =
                    IF m_pc = "upd_primary" THEN "UPDATE_PRIMARY_FAILED"
                    ELSE "UPDATE_SECONDARY_FAILED"
       /\ (Reports(s) /\ StreamHasEntries(s)) => StreamConn(s).ok]_vars

(* handle_switch_primary for the replacement of a starts in this step *)
SwitchStarts(a) == m_pc # "sw_wait" /\ m_pc' = "sw_wait" /\ m_sw'[1] = a

(* C22: after the coordinator has read UPDATE_PRIMARY_FAILED or             *)
(* UPDATE_SECONDARY_FAILED for the recovery of shard a, it does not start   *)
(* the switch for that recovery, a locate for a key of a names              *)
(* Sb = secondary(a), and Sb does not answer a client GET or PUT for a key  *)
(* of a with SERVER_FAILURE.                                                *)
C22_AbortedRecoveryKeepsSb ==
  [][\A a \in Srv :
       RecoveryAborted(a) =>
         /\ ~SwitchStarts(a)
         /\ \A k \in Keys :
              Owner(k) = a => locate_server(k) = secondary_server_id(a, num_servers)
         /\ (/\ Replied /\ reply'.srv = secondary_server_id(a, num_servers)
             /\ Owner(reply'.key) = a)
              => reply'.status # "SERVER_FAILURE"]_vars

(* C23: in every reachable state every key stored in the primary table of  *)
(* server i is owned by i, and every key stored in its secondary table is   *)
(* owned by primary_of(i); client PUTs, forwarded PUTs, recovery streaming  *)
(* and interim-primary writes preserve this.                                *)
C23_TablesHoldOwnShards ==
  \A i \in Srv : \A k \in Keys :
    /\ primary_hash[i][k] # NoVal => Owner(k) = i
    /\ secondary_hash[i][k] # NoVal => Owner(k) = primary_server_id(i, num_servers)

(* The process of the node the coordinator's cleanup waits for ends in this *)
(* step, and not by a crash                                                 *)
EndsInCleanup ==
  /\ m_pc = "cleanup_wait"
  /\ alive[m_i]
  /\ ~alive'[m_i]
  /\ budget' = budget

Unwritten(k) ==
  \A s \in Srv :
    /\ primary_hash[s][k] = NoVal
    /\ secondary_hash[s][k] = NoVal
    /\ \A r \in client_fd_table[s] : ~(r.op = "PUT" /\ r.key = k)
    /\ \A th \in Threads : ~(hnd[s][th].pc # "idle" /\ hnd[s][th].op = "PUT" /\ hnd[s][th].key = k)
    /\ \A i \in 1..Len(primary_fd[s].req) : primary_fd[s].req[i].key # k
    /\ \A i \in 1..Len(secondary_fd[s].req) : secondary_fd[s].req[i].key # k

(* A client GET for an unwritten key is answered by the owner of the key *)
OwnerAnswersGetUnwritten ==
  /\ Replied
  /\ reply'.op = "GET"
  /\ Owner(reply'.key) = reply'.srv
  /\ Unwritten(reply'.key)

(* C25: a client GET for a key the receiving server is responsible for and  *)
(* that has never been written is answered KEY_NOT_FOUND, not               *)
(* SERVER_FAILURE, and both tables of the server stay as they are.          *)
C25_GetUnknownKeyNotFound ==
  [][OwnerAnswersGetUnwritten =>
       /\ reply'.status = "KEY_NOT_FOUND"
       /\ primary_hash' = primary_hash
       /\ secondary_hash' = secondary_hash]_vars

(* Server s receives UPDATE_PRIMARY or UPDATE_SECONDARY in this step: it    *)
(* creates its send_table_task or answers UPDATE_*_FAILED                   *)
CommandReceived(s) ==
  \/ \E t \in tasks'[s] \ tasks[s] : t.pc = "start"
  \/ /\ Len(inbox'[s]) = Len(inbox[s]) + 1
     /\ inbox'[s][Len(inbox'[s])].type \in {"UPDATE_PRIMARY_FAILED", "UPDATE_SECONDARY_FAILED"}

(* The replacement of node a is spawned and its control connections are up *)
SpawnedAndConnected(a) ==
  /\ server_status[a] = "RECON"
  /\ socket_fd_in[a]
  /\ socket_fd_out[a]

(* C26: on detecting the failure of server a the coordinator marks a        *)
(* FAILED, spawns the replacement and re-establishes its control            *)
(* connections, sends UPDATE_PRIMARY naming the replacement to secondary(a) *)
(* and then UPDATE_SECONDARY naming it to primary_of(a), in this order; no  *)
(* UPDATE_* command is sent before the replacement is spawned and           *)
(* connected, and none is sent when the spawn fails.                        *)
C26_RecoveryStepOrder ==
  [][/\ (m_pc # "spawning" /\ m_pc' = "spawning")
          => m_pc = "detect" /\ server_status'[m_i'] = "FAILED"
     /\ (m_pc # "upd_primary" /\ m_pc' = "upd_primary")
          => /\ m_pc = "spawning" /\ server_status[m_i] = "FAILED" /\ m_i' = m_i
             /\ alive'[m_i] /\ server_status'[m_i] = "RECON"
             /\ socket_fd_in'[m_i] /\ socket_fd_out'[m_i]
     /\ (m_pc # "upd_secondary" /\ m_pc' = "upd_secondary")
          => m_pc = "upd_primary" /\ m_i' = m_i
     /\ (m_pc = "spawning" /\ m_pc' # "spawning" /\ server_status'[m_i] = "FAILED")
          => m_pc' = "detect"
     /\ \A s \in Srv : CommandReceived(s) =>
          /\ SpawnedAndConnected(m_i)
          /\ \/ /\ m_pc = "upd_primary"
                /\ s = secondary_server_id(m_i, num_servers)
                /\ ~send_primary'[s]
             \/ /\ m_pc = "upd_secondary"
                /\ s = primary_server_id(m_i, num_servers)
                /\ send_primary'[s]
          /\ \A t \in tasks'[s] \ tasks[s] : t.no = recovery_no[m_i]]_vars

(* Both commands of one recovery have been delivered *)
C26_Witness ==
  \E a \in Srv :
    /\ SpawnedAndConnected(a)
    /\ state[secondary_server_id(a, num_servers)] = "UPDATING_PRIMARY"
    /\ state[primary_server_id(a, num_servers)] = "UPDATING_SECONDARY"
    /\ budget.spawn_fail = 0

(* The table a task has to stream: the secondary table on UPDATE_PRIMARY,   *)
(* the primary table on UPDATE_SECONDARY; and the completion message of its *)
(* command                                                                  *)
CmdTable(s, t) == IF t.cmd = "UPDATE_PRIMARY" THEN secondary_hash[s] ELSE primary_hash[s]
CmdReport(t) == IF t.cmd = "UPDATE_PRIMARY" THEN "UPDATED_PRIMARY" ELSE "UPDATED_SECONDARY"

(* A recovery-stream PUT is appended to connection c in this step *)
StreamSent(c, d) ==
  /\ Len(d.req) = Len(c.req) + 1
  /\ d.to = c.to
  /\ d.req[Len(d.req)].src = "stream"

(* The entry streamed on d is the one of table tb, and it goes to a *)
StreamsEntryOf(d, tb, a) ==
  /\ d.to = a
  /\ d.req[Len(d.req)].val = tb[d.req[Len(d.req)].key]

(* Server s leaves NORMAL in this step *)
LeavesNormal(s) == state[s] = "ONLINE" /\ state'[s] # "ONLINE"

(* C27: a NORMAL server enters STREAMING_PRIMARY on UPDATE_PRIMARY and      *)
(* streams its secondary table to the named replacement, enters             *)
(* STREAMING_SECONDARY on UPDATE_SECONDARY and streams its primary table;   *)
(* it sends the matching UPDATED_PRIMARY / UPDATED_SECONDARY only after the *)
(* last table entry has been sent and then returns to NORMAL; the only      *)
(* other transition out of NORMAL is SWITCH_PRIMARY, to SWITCHING_PRIMARY   *)
(* and back to NORMAL.                                                      *)
C27_ServerRecoveryStates ==
  [][\A s \in Srv :
       /\ LeavesNormal(s) =>
            \/ /\ state'[s] = "UPDATING_PRIMARY"
               /\ m_pc = "upd_primary"
               /\ primary_fd'[s].to = m_i
               /\ \E t \in tasks'[s] \ tasks[s] : t.pc = "start" /\ t.cmd = "UPDATE_PRIMARY"
            \/ /\ state'[s] = "UPDATING_SECONDARY"
               /\ m_pc = "upd_secondary"
               /\ secondary_fd'[s].to = m_i
               /\ \E t \in tasks'[s] \ tasks[s] : t.pc = "start" /\ t.cmd = "UPDATE_SECONDARY"
            \/ /\ state'[s] = "SWITCHING_PRIMARY"
               /\ m_pc' = "sw_wait"
               /\ m_sw'[2] = s
       /\ (state[s] = "SWITCHING_PRIMARY" /\ state'[s] # state[s]) => state'[s] = "ONLINE"
       /\ StreamSent(primary_fd[s], primary_fd'[s]) =>
            \E t \in tasks[s] :
              /\ t.pc = "iter" /\ t.cmd = "UPDATE_PRIMARY"
              /\ StreamsEntryOf(primary_fd'[s], secondary_hash[s], primary_server_id(s, num_servers))
       /\ StreamSent(secondary_fd[s], secondary_fd'[s]) =>
            \E t \in tasks[s] :
              /\ t.pc = "iter" /\ t.cmd = "UPDATE_SECONDARY"
              /\ StreamsEntryOf(secondary_fd'[s], primary_hash[s], secondary_server_id(s, num_servers))
       /\ Reports(s) =>
            \E t \in tasks[s] :
              /\ t.pc = "iter"
              /\ [t EXCEPT !.pc = "fin"] \in tasks'[s]
              /\ inbox'[s][Len(inbox'[s])].type = CmdReport(t)
              /\ \A k \in Keys : CmdTable(s, t)[k] # NoVal => k < t.cur
       /\ \A t \in tasks[s] \ tasks'[s] :
            (t.pc = "fin" /\ alive'[s]) => state'[s] = "ONLINE"]_vars

(* No client PUT is queued, being handled or on a peer connection *)
NoPutInFlight == \A k \in Keys : ~PutInFlight(k)

(* The recovery of a is under way, Sb = secondary(a) has received           *)
(* UPDATE_PRIMARY for it and its stream is complete                         *)
StreamComplete(a) ==
  /\ recovery_no[a] > 0
  /\ server_status[a] = "RECON"
  /\ ~(m_i = a /\ m_pc \in {"spawning", "upd_primary"})
  /\ alive[a]
  /\ alive[secondary_server_id(a, num_servers)]
  /\ tasks[secondary_server_id(a, num_servers)] = {}

(* C28: recovery-stream PUTs and live forwarded PUTs for a key k interleave *)
(* at the replacement without a streamed, older value being applied after a *)
(* forwarded, newer one: once the stream is complete and no PUT is in       *)
(* flight, the replacement's value for k is the one of the source replica   *)
(* (values are numbered in the order the PUTs are issued; the replacement   *)
(* holds a later one only when a client wrote to it directly).              *)
C28_StreamAndForwardsConverge ==
  \A a \in Srv :
    (StreamComplete(a) /\ NoPutInFlight) =>
      \A k \in Keys :
        Owner(k) = a =>
          primary_hash[a][k] >= secondary_hash[secondary_server_id(a, num_servers)][k]

(* A streamed entry and a later forwarded PUT for the same key, with a      *)
(* newer value, wait at the replacement                                     *)
C28_Witness ==
  \E s \in Srv :
    LET q == primary_fd[s].req IN
      /\ primary_fd[s].ok
      /\ \E i, j \in 1..Len(q) :
           /\ i < j
           /\ q[i].src = "stream"
           /\ q[j].src = "fwd"
           /\ q[i].key = q[j].key
           /\ q[i].val < q[j].val

(* The request at the head of connection c is answered in this step with   *)
(* status st                                                                *)
PeerAnswered(c, d, st) ==
  /\ c.ok
  /\ c.to = d.to
  /\ c.req # <<>>
  /\ d.req = Tail(c.req)
  /\ Len(d.resp) = Len(c.resp) + 1
  /\ d.resp[Len(d.resp)].status = st

TablesUnchanged == primary_hash' = primary_hash /\ secondary_hash' = secondary_hash

(* What the handler of receiver c.to has to do with the PUT at the head of  *)
(* c when the value copy was allocated                                      *)
PeerPutApplied(c, d) ==
  LET t == c.to
      m == Head(c.req) IN
    IF Owner(m.key) = t
    THEN /\ PeerAnswered(c, d, "SUCCESS")
         /\ primary_hash' = [primary_hash EXCEPT ![t][m.key] = m.val]
         /\ secondary_hash' = secondary_hash
    ELSE IF secondary_server_id(Owner(m.key), num_servers) = t
    THEN /\ PeerAnswered(c, d, "SUCCESS")
         /\ secondary_hash' = [secondary_hash EXCEPT ![t][m.key] = m.val]
         /\ primary_hash' = primary_hash
    ELSE /\ PeerAnswered(c, d, "SERVER_FAILURE")
         /\ TablesUnchanged

(* The receiver is neither owner(k) nor secondary(owner(k)) for the PUT at  *)
(* the head of c                                                            *)
NotResponsible(c) ==
  /\ Owner(Head(c.req).key) # c.to
  /\ secondary_server_id(Owner(Head(c.req).key), num_servers) # c.to

(* C29 as stated: a peer PUT(k,v) is written to the primary table exactly   *)
(* when the receiver is owner(k), to the secondary table exactly when it is *)
(* secondary(owner(k)), and answered SUCCESS, or OUT_OF_SPACE with the      *)
(* tables unchanged; a receiver that is neither answers SERVER_FAILURE and  *)
(* changes no table; the receiver's recovery state plays no part.           *)
C29_PeerPutTable ==
  [][\A s \in Srv : \A name \in {"pri", "sec"} :
       LET c == Fd(s, name)
           d == IF name = "pri" THEN primary_fd'[s] ELSE secondary_fd'[s] IN
         (\E st \in {"SUCCESS", "OUT_OF_SPACE", "SERVER_FAILURE"} : PeerAnswered(c, d, st)) =>
           \/ PeerPutApplied(c, d)
           \/ /\ ~NotResponsible(c)
              /\ PeerAnswered(c, d, "OUT_OF_SPACE")
              /\ TablesUnchanged]_vars

(* C29, amended: as above, and a receiver that is neither answers           *)
(* OUT_OF_SPACE instead of SERVER_FAILURE when the allocation of the value  *)
(* copy fails.                                                              *)
C29_PeerPutTableOrOom ==
  [][\A s \in Srv : \A name \in {"pri", "sec"} :
       LET c == Fd(s, name)
           d == IF name = "pri" THEN primary_fd'[s] ELSE secondary_fd'[s] IN
         (\E st \in {"SUCCESS", "OUT_OF_SPACE", "SERVER_FAILURE"} : PeerAnswered(c, d, st)) =>
           \/ PeerPutApplied(c, d)
           \/ /\ PeerAnswered(c, d, "OUT_OF_SPACE")
              /\ TablesUnchanged]_vars

(* A peer PUT was answered SUCCESS by a receiver that is not NORMAL, and a  *)
(* receiver that is neither primary nor secondary has answered as well      *)
C29_Witness ==
  /\ \E s \in Srv : \E name \in {"pri", "sec"} :
       LET c == Fd(s, name) IN
         /\ c.ok /\ c.resp # <<>>
         /\ c.resp[Len(c.resp)].src = "peer"
         /\ c.resp[Len(c.resp)].status = "SUCCESS"
         /\ state[c.to] # "ONLINE"
  /\ \E s \in Srv : \E name \in {"pri", "sec"} :
       LET c == Fd(s, name) IN
         /\ c.ok /\ c.resp # <<>>
         /\ c.resp[1].src = "peer"
         /\ c.resp[1].status = "SERVER_FAILURE"

(* The replacement of server a is ONLINE at the coordinator and answers a   *)
(* client GET for a key it owns that was written with SUCCESS               *)
ReplacementAnswersGet(a) ==
  /\ recovery_no[a] > 0
  /\ server_status[a] = "ONLINE"
  /\ Replied
  /\ reply'.srv = a
  /\ reply'.op = "GET"
  /\ Owner(reply'.key) = a
  /\ acked[reply'.key] # NoVal

(* C30: under fairness and with no further failure a single crash of server *)
(* a leads to detection, a spawned replacement, both UPDATED_* messages,    *)
(* the switch and status ONLINE at the coordinator; after that a GET via    *)
(* locate for a key of a written before is served by the replacement with   *)
(* the written value.                                                       *)
C30_RecoveredGetReturnsValue ==
  [][\A a \in Srv :
       ReplacementAnswersGet(a) =>
         reply'.status = "SUCCESS" /\ reply'.val = acked[reply'.key]]_vars

(* ------------------- locates during and after a switch ------------------ *)

(* The coordinator reads a locate request for key k whose owner is ONLINE   *)
(* and running: k is outside the key set of any shard being switched        *)
LocateOutsideSwitch(k) ==
  /\ MLocate(k)
  /\ server_status[Owner(k)] = "ONLINE"
  /\ alive[Owner(k)]

(* C31: a locate request for a key outside the shard being switched, in     *)
(* particular a key owned by Sb itself or by another ONLINE server, is      *)
(* answered by the coordinator even while ignore_put halts the locates of   *)
(* the switched shard.                                                      *)
C31_OtherLocatesAnswered ==
  [][\A k \in Keys : LocateOutsideSwitch(k) => locate_resp' # NoLocate]_vars

(* ----------------------------- client NOOP ------------------------------ *)

(* A client connects to server s and sends an OP_NOOP request; the request  *)
(* carries key k like every operation_request                               *)
ClientNoop(s, k) ==
  /\ alive[s]
  /\ budget.ops > 0
  /\ budget' = [budget EXCEPT !.ops = @ - 1]
  /\ client_fd_table' = [client_fd_table EXCEPT ![s] =
       @ \cup {[op |-> "NOOP", key |-> k, val |-> NoVal]}]
  /\ UNCHANGED <<mvars, lvars, primary_hash, secondary_hash, hnd, locked, reply,
                 acked, svars, inbox>>

(* Variant: OP_NOOP falls through to the table lookup of OP_GET *)
HNoop_looks_up(s, th) ==
  /\ CanRun(s, th)
  /\ hnd[s][th].pc = "op"
  /\ hnd[s][th].op = "NOOP"
  /\ LET h == hnd[s][th]
         v == Table(s, h.tbl)[h.key] IN
       Respond(s, th, h, IF v = NoVal THEN "KEY_NOT_FOUND" ELSE "SUCCESS", NoVal)
  /\ UNCHANGED <<mvars, lvars, primary_hash, secondary_hash, client_fd_table,
                 locked, svars, inbox, budget>>

(* case OP_NOOP, reached after the key check: SUCCESS *)
HNoop(s, th) ==
  /\ CanRun(s, th)
  /\ hnd[s][th].pc = "op"
  /\ hnd[s][th].op = "NOOP"
  /\ Respond(s, th, hnd[s][th], "SUCCESS", NoVal)
  /\ UNCHANGED <<mvars, lvars, primary_hash, secondary_hash, client_fd_table,
                 locked, svars, inbox, budget>>

(* One crash with its recovery and a sequential client that sends PUT and   *)
(* NOOP requests for any key to any server                                  *)
InitNoop == InitWith(0, DataBudget)

NextNoop ==
  \/ Tick \/ MSelect \/ MDetectNone \/ MDetect \/ MSpawnOk
  \/ MUpdatePrimary \/ MUpdateSecondary
  \/ MMsgNone \/ MMsgHeartbeat \/ MMsgUpdated \/ MSetSecondary
  \/ ClientRecvReply
  \/ \E s \in Srv :
       \/ Crash(s) \/ SFlushDone(s) \/ TStart(s) \/ TSend(s) \/ TAck(s) \/ TFin(s)
       \/ ClSwitchReject(s) \/ SPeerPut(s)
       \/ \E th \in Threads :
            \/ HRecv(s, th) \/ HCheck2(s, th) \/ HSelect(s, th) \/ HNoop(s, th)
            \/ HPut(s, th) \/ HForwardReply(s, th)
       \/ \E k \in Keys : ClientIdle /\ (ClientPut(s, k) \/ ClientNoop(s, k))

SpecNoop == InitNoop /\ [][NextNoop]_vars

(* process_client_message of a server answers a NOOP in this step *)
NoopAnswered ==
  /\ Replied
  /\ reply'.op = "NOOP"
  /\ reply'.why # "switching"

MBlocked == m_pc \in {"spawning", "upd_primary", "upd_secondary", "sw_wait"}

(* One second passes while the coordinator is blocked: every running        *)
(* server's heartbeat_task sends HEARTBEAT, nothing is read; at most        *)
(* MaxAge seconds are followed, and only MaxDataCrashes recoveries take     *)
(* time                                                                     *)
Elapse ==
  /\ MBlocked
  /\ \E i \in Srv : hb_age[i] < MaxAge
  /\ \A i \in Srv : recovery_no[i] < MaxDataCrashes
  /\ hb_age' = [i \in Srv |-> Inc(hb_age[i])]
  /\ inbox' = [i \in Srv |->
       IF alive[i] /\ socket_fd_in[i]
       THEN Append(inbox[i], [type |-> "HEARTBEAT", sid |-> i, no |-> 0])
       ELSE inbox[i]]
  /\ UNCHANGED <<server_timeout, server_status, updated_primary_accepted,
                 updated_secondary_accepted, ignore_put, hb_seen, socket_fd_in,
                 socket_fd_out, m_pc, m_i, m_sw, recovery_no, ack_primary_no,
                 ack_secondary_no, update_failed_no, lvars, dvars, svars, budget>>

(* One crash; the recovery steps of the coordinator take time *)
BlockedBudget == [crash |-> MaxDataCrashes, spawn_fail |-> 0, oom |-> 0, ops |-> 0]

InitBlocked == InitWith(0, BlockedBudget)

NextBlocked ==
  \/ Tick \/ Elapse \/ MSelect \/ MDetectNone \/ MDetect \/ MSpawnOk
  \/ MUpdatePrimary \/ MUpdateSecondary
  \/ MMsgNone \/ MMsgHeartbeat \/ MMsgUpdated \/ MSetSecondary
  \/ \E s \in Srv : Crash(s) \/ SFlushDone(s) \/ TStart(s) \/ TAck(s) \/ TFin(s)

SpecBlocked == InitBlocked /\ [][NextBlocked]_vars

(* The coordinator declares server s FAILED in this step *)
DeclaredFailed(s) == server_status[s] # "FAILED" /\ server_status'[s] = "FAILED"

(* C33: a server that runs, and so sends a heartbeat every interval, is     *)
(* never declared FAILED by the coordinator, also not when the coordinator  *)
(* was blocked in a recovery step for another server while the heartbeats   *)
(* arrived.                                                                 *)
C33_AliveNeverFailed ==
  [][\A s \in Srv : DeclaredFailed(s) => ~alive[s]]_vars

(* ----------------- completion report and unapplied entries -------------- *)

(* Recovery-stream PUTs that the replacement has not read from connection c *)
StreamPending(c) == {n \in 1..Len(c.req) : c.req[n].src = "stream"}

(* A recovery-stream PUT sent to server a is still unread in one of a's     *)
(* peer sockets                                                             *)
UnappliedAt(a) ==
  \E s \in Srv : \E name \in {"pri", "sec"} :
    /\ Fd(s, name).to = a
    /\ Fd(s, name).ok
    /\ StreamPending(Fd(s, name)) # {}

(* C34: a streaming server reports UPDATED_PRIMARY / UPDATED_SECONDARY only *)
(* after the replacement has applied every streamed entry, and when the     *)
(* coordinator marks the replacement ONLINE no streamed PUT is unprocessed  *)
(* at the replacement.                                                      *)
C34_ReportAfterApplied ==
  [][/\ \A s \in Srv :
          (Reports(s) /\ StreamConn(s).ok) => StreamPending(StreamConn(s)) = {}
     /\ \A a \in Srv :
          (server_status[a] # "ONLINE" /\ server_status'[a] = "ONLINE")
            => ~UnappliedAt(a)]_vars

(* ------------------- replies on a shared peer connection ---------------- *)

(* The handler of thread th at server s reads a response for its forwarded  *)
(* PUT from its peer connection in this step                                *)
ReadsForwardReply(s, th) ==
  /\ hnd[s][th].pc = "fwd"
  /\ hnd'[s][th].pc # "fwd"
  /\ hnd[s][th].fd # "closed"
  /\ Fd(s, hnd[s][th].fd).resp # <<>>
  /\ Fd(s, hnd[s][th].fd)'.resp = Tail(Fd(s, hnd[s][th].fd).resp)

(* C35: the response a server reads for a forwarded client PUT is the       *)
(* partner's response to a forwarded PUT, never the response to a           *)
(* recovery-stream PUT that the streaming task sent on the same connection. *)
C35_ForwardReplyIsOwn ==
  [][\A s \in Srv : \A th \in Threads :
       ReadsForwardReply(s, th) =>
         Head(Fd(s, hnd[s][th].fd).resp).src = "fwd"]_vars

(* --------- client_fd_table shared by the two dispatcher threads --------- *)

(* The entry of client_fd_table a thread of server s is working on: the     *)
(* request it has read from that connection                                 *)
EntryOf(s, th) == [op |-> hnd[s][th].op, key |-> hnd[s][th].key, val |-> hnd[s][th].val]

(* SWITCH_PRIMARY flush loop: the entry the client dispatcher is still      *)
(* processing is valid (it is closed only after process_client_message      *)
(* returns), so the control dispatcher calls process_client_message on the  *)
(* same descriptor and waits in recv_msg for a request that was read already *)
SFlushBusy(s) ==
  /\ alive[s]
  /\ main_pc[s] = "flush"
  /\ hnd[s]["main"].pc = "idle"
  /\ hnd[s]["cl"].pc # "idle"
  /\ hnd' = [hnd EXCEPT ![s]["main"] =
       [IdleH EXCEPT !.pc = "dup", !.op = hnd[s]["cl"].op,
                     !.key = hnd[s]["cl"].key, !.val = hnd[s]["cl"].val]]
  /\ UNCHANGED <<mvars, lvars, primary_hash, secondary_hash, client_fd_table,
                 locked, reply, acked, svars, inbox, budget>>

(* The client dispatcher has answered and closed the connection: recv_msg   *)
(* of the control dispatcher fails, process_client_message returns and      *)
(* close_safe is called on the entry a second time                          *)
SFlushBusyEnd(s) ==
  /\ alive[s]
  /\ hnd[s]["main"].pc = "dup"
  /\ hnd[s]["cl"].pc = "idle"
  /\ hnd' = [hnd EXCEPT ![s]["main"] = IdleH]
  /\ UNCHANGED <<mvars, lvars, primary_hash, secondary_hash, client_fd_table,
                 locked, reply, acked, svars, inbox, budget>>

(* One crash with its recovery, a sequential client, and a flush loop that  *)
(* meets the entries the client dispatcher is working on                    *)
InitFlush == InitWith(0, DataBudget)

NextFlush ==
  \/ Tick \/ MSelect \/ MDetectNone \/ MDetect \/ MSpawnOk
  \/ MUpdatePrimary \/ MUpdateSecondary
  \/ MMsgNone \/ MMsgHeartbeat \/ MMsgUpdated \/ MSetSecondary
  \/ ClientRecvReply
  \/ \E s \in Srv :
       \/ Crash(s) \/ SFlushDone(s) \/ TStart(s) \/ TSend(s) \/ TAck(s) \/ TFin(s)
       \/ ClSwitchReject(s) \/ SPeerPut(s) \/ SFlushBusy(s) \/ SFlushBusyEnd(s)
       \/ \E th \in Threads : HandlerStep(s, th)
       \/ \E k \in Keys : ClientIdle /\ (ClientPut(s, k) \/ ClientGet(s, k))

SpecFlush == InitFlush /\ [][NextFlush]_vars

(* C36: a client connection accepted by a server is processed and closed by *)
(* one thread only: the control dispatcher in the SWITCH_PRIMARY flush and  *)
(* the client dispatcher never work on the same client_fd_table entry.      *)
C36_OneThreadPerClientFd ==
  \A s \in Srv :
    (hnd[s]["cl"].pc # "idle" /\ hnd[s]["main"].pc # "idle")
      => EntryOf(s, "cl") # EntryOf(s, "main")

(* ------------------ recovery state during the switch -------------------- *)

(* Server s has received SWITCH_PRIMARY and has not sent its reply yet *)
InSwitch(s) == alive[s] /\ main_pc[s] = "flush"

(* C37: from the receipt of SWITCH_PRIMARY until its reply Sb's recovery    *)
(* state is SWITCHING_PRIMARY; the final assignment of NORMAL by the        *)
(* streaming task does not overwrite it, so the client dispatcher rejects   *)
(* every request that arrives in between.                                   *)
C37_SwitchingUntilReply ==
  \A s \in Srv : InSwitch(s) => state[s] = "SWITCHING_PRIMARY"

(* --------------------- SWITCH_PRIMARY acknowledgement ------------------- *)

(* handle_switch_primary for the replacement of a is waiting in             *)
(* send_request and Sb = secondary(a) has answered SWITCH_PRIMARY: Sb runs, *)
(* the coordinator's descriptor to it is valid and its control dispatcher   *)
(* has left the SWITCH_PRIMARY case, which always answers CTRLREQ_SUCCESS   *)
SwitchAcked(a) ==
  LET Sb == secondary_server_id(a, num_servers) IN
    /\ m_pc = "sw_wait"
    /\ m_sw = <<a, Sb>>
    /\ alive[Sb]
    /\ socket_fd_out[Sb]
    /\ main_pc[Sb] = "loop"

(* C38: the coordinator marks the replacement of a ONLINE, and names it in  *)
(* locate responses for the shard of a, only when Sb has acknowledged       *)
(* SWITCH_PRIMARY with CTRLREQ_SUCCESS; when the send fails or no success   *)
(* reply comes, the switch is not completed: no status changes and the      *)
(* locates of a shard that is not ONLINE do not name the replacement.       *)
C38_OnlineOnlyAfterSwitchAck ==
  [][\A a \in Srv :
       /\ (server_status[a] # "ONLINE" /\ server_status'[a] = "ONLINE")
            => SwitchEnds(a) /\ SwitchAcked(a)
       /\ (SwitchEnds(a) /\ ~SwitchAcked(a))
            => /\ server_status' = server_status
               /\ server_status[a] # "ONLINE"
                    => \A k \in Keys : Owner(k) = a => locate_server(k)' # a]_vars

(* C38 happens: the switch for a has ended, Sb had acknowledged it and runs *)
(* in state NORMAL, and the replacement is ONLINE at the coordinator        *)
C38_Witness ==
  \E a \in Srv :
    /\ recovery_no[a] > 0
    /\ m_sw = <<a, secondary_server_id(a, num_servers)>>
    /\ m_pc # "sw_wait"
    /\ server_status[a] = "ONLINE"
    /\ alive[secondary_server_id(a, num_servers)]
    /\ state[secondary_server_id(a, num_servers)] = "ONLINE"
    /\ recovery_no[secondary_server_id(a, num_servers)] = 0

(* ----------------------- ignore_put after a switch ---------------------- *)

(* The coordinator is about to read a locate request: it is not inside      *)
(* handle_switch_primary                                                    *)
ReadsLocate == m_pc = "msgs" /\ HasMsg(m_i) = {}

(* C39: ignore_put is false on every server whenever the coordinator reads  *)
(* a locate request: handle_switch_primary clears the flags it has set on   *)
(* the replacement and on Sb before it returns, on the success path and on  *)
(* the SET_SECONDARY-failure path.                                          *)
C39_IgnorePutClearedOnReturn ==
  ReadsLocate => \A s \in Srv : ~ignore_put[s]

(* ------------------- detection of every crashed server ------------------ *)

(* Server s has crash-stopped and the coordinator has not declared it       *)
(* FAILED yet                                                               *)
CrashedUndetected(s) == ~alive[s] /\ server_status[s] = "ONLINE"

(* C40: every server that crash-stops is eventually declared FAILED by the  *)
(* coordinator (and its replacement is then spawned), also a server from    *)
(* which the coordinator has never received a heartbeat.                    *)
C40_CrashEventuallyDetected ==
  \A s \in Srv : CrashedUndetected(s) ~> (server_status[s] = "FAILED")

====
